---- MODULE Spec2Model ----
(***************************************************************************)
(* AsyncTCPSock: the socket service task (_asynctcpsock_task), the client  *)
(* connection (AsyncClient) with its write queue, and the threads that     *)
(* call into it: the service task, one application thread and the LWIP     *)
(* thread that delivers DNS results.  Every step is one shared-memory      *)
(* access point of src/src/AsyncTCP.cpp; the two mutexes are explicit.     *)
(***************************************************************************)
EXTENDS Integers, Sequences, FiniteSets, TLC

\* ---------------------------------------------------------------- bounds
\* Managed sockets there can be, and those the application constructs in a
\* run that starts with none.
MaxSocks == 2
MaxObjs == 1
\* add() calls that are accepted over a run (each names one data buffer).
MaxAdds == 2
\* Largest size handed to add().
MaxLen == 2
\* The send window TCP_SND_BUF (lwipopts.h, 5744 on the target), scaled down
\* so that add() meets room < size.
SndBuf == 3
\* Descriptors the sockets layer hands out over a run.
MaxFds == 2
\* Clock advances over a run.
MaxClock == 2
\* Writes through the stale head slot of an empty queue over a run.
MaxJunk == 1
\* Resolutions the resolver defers over a run.
MaxDns == 1
\* millis() when the application starts, where a run begins with the board
\* already up.
Uptime == 1000

\* ------------------------------------------------------- program constants
ASYNC_MAX_ACK_TIME == 5000
PollInterval == 125
DnsFailed == -55

Socks == 1 .. MaxSocks
Fds == 0 .. MaxFds - 1
Conns == 1 .. MaxFds
BufIds == 1 .. MaxAdds
Threads == {"task", "user", "lwip"}
NoThread == "none"
\* errno values of the sockets layer (newlib's errno.h): a connect fails with
\* ECONNREFUSED, a read with ECONNRESET, a write with ENOTCONN, a call on
\* descriptor -1 with EBADF.
Errno == [EAGAIN |-> 11, EBADF |-> 9, ECONNRESET |-> 104, ECONNREFUSED |-> 111,
          ENOTCONN |-> 128]
\* The clock advances by one of these (milliseconds).
ClockSteps == {125, 1000}
\* lwIP's err_t values (lwip/err.h).
Lwip == [ERR_OK |-> 0, ERR_INPROGRESS |-> -5, ERR_ABRT |-> -13]
\* Values the application gives setAckTimeout (ms) and setRxTimeout (s).
AckTimeouts == {0, 125}
RxTimeouts == {0, 1}
CallbackNames == {"connect", "discard", "sent", "error", "recv", "timeout", "poll"}

VARIABLES
    \* AsyncSocketBase
    registry,            \* _socketBaseList
    kind,                \* dynamic type of each object: "none" (not constructed yet),
                         \* "base", "client", "server", "dead" (destroyed)
    socket,              \* _socket
    selected,            \* _selected
    isdnsfinished,       \* _isdnsfinished
    sock_lastactivity,   \* _sock_lastactivity
    \* AsyncClient
    conn_state,          \* _conn_state
    writeQueue,          \* _writeQueue
    writeSpaceRemaining, \* _writeSpaceRemaining
    ack_timeout_signaled,
    rx_last_packet,
    rx_since_timeout,
    ack_timeout,
    connect_addr,        \* _connect_addr.u_addr.ip4.addr (0 or an address)
    cbs,                 \* the callback slots that hold a function
    \* mutexes
    asyncsock_mutex,     \* recursive: [owner, count]
    write_mutex,         \* per client: owner or "none"
    \* threads
    pc, frame,
    stack,               \* per thread: the calls it is inside of, outermost first
    \* service task locals
    sockList, sockSet_r, nActive, t1, t2,
    \* environment
    now,                 \* millis()
    openFds,             \* sockets layer: descriptor -> connection it is open for (0: free)
    dnsReq,              \* per client: resolver request outstanding
    \* observation
    wire,                \* bytes written to the current descriptor, in order
    cblog,               \* callbacks fired for the current connection, in order
    freed,               \* ::free calls per data buffer
    nextBuf,             \* next data buffer handed to add()
    copied,              \* data buffers add() made a copy of
    conn,                \* per client: the connection (1, 2, ...) its descriptor belongs to
    nClose,              \* per connection: lwip_close calls on its descriptor
    hookTrace,           \* hooks dispatched in the current tick, in order (emptied at its end)
    nClock, nFds, nJunk, nDns

baseVars == <<registry, kind, socket, selected, isdnsfinished, sock_lastactivity>>
clientVars == <<conn_state, writeQueue, writeSpaceRemaining, ack_timeout_signaled,
                rx_last_packet, rx_since_timeout, ack_timeout, connect_addr, cbs>>
mutexVars == <<asyncsock_mutex, write_mutex>>
threadVars == <<pc, frame, stack>>
taskVars == <<sockList, sockSet_r, nActive, t1, t2>>
envVars == <<now, openFds, dnsReq, nClock, nFds, nJunk, nDns>>
obsVars == <<wire, cblog, freed, nextBuf, copied, conn, nClose, hookTrace>>
vars == <<baseVars, clientVars, mutexVars, threadVars, taskVars, envVars, obsVars>>

\* ---------------------------------------------------------------- helpers
Min(a, b) == IF a < b THEN a ELSE b

\* (a - b) >= t in uint32_t arithmetic, for t and |a - b| far below 2^31:
\* a difference that would be negative wraps to a value near 2^32.
ElapsedAtLeast(a, b, t) == IF a >= b THEN a - b >= t ELSE TRUE

\* int8_t(err): the conversion at the call of _error(int8_t err).
ToInt8(e) == LET m == e % 256 IN IF m >= 128 THEN m - 256 ELSE m

NoFrame == [this |-> 0, ret |-> "idle", err |-> 0, isErr |-> FALSE, fd |-> -1,
            cause |-> "", entry |-> <<>>, result |-> 0, t |-> 0,
            size |-> 0, room |-> 0, will_send |-> 0]

\* The call _error(e) in place of _close().
Erroring(f) == [f EXCEPT !.isErr = TRUE, !.err = 0]

\* The call _close() in place of _error(e).
ClosingInstead(f, e) == [f EXCEPT !.isErr = FALSE, !.err = 0]

\* The frame of a call that goes on to _close() / to _error(int8_t(e)).
Closing(f) == [f EXCEPT !.isErr = FALSE, !.err = 0]
Failing(f, e) == [f EXCEPT !.isErr = TRUE, !.err = ToInt8(e)]

\* xSemaphoreTakeRecursive(_asyncsock_mutex) can return for thread t.
CanTake(t) == asyncsock_mutex.owner \in {NoThread, t}
Taken(t) == [owner |-> t, count |-> asyncsock_mutex.count + 1]
Given == IF asyncsock_mutex.count = 1
         THEN [owner |-> NoThread, count |-> 0]
         ELSE [asyncsock_mutex EXCEPT !.count = @ - 1]

\* if (_x_cb) _x_cb(...): the log of one client after the slot name was looked
\* at, cb being the slots that hold a function.
Fired(log, cb, name, arg) == IF name \in cb THEN Append(log, <<name, arg>>) ELSE log

Fire(s, name, arg) == [cblog EXCEPT ![s] = Fired(@, cbs[s], name, arg)]

\* ------------------------------------------------------------ write queue
\* queued_writebuf as add() builds it; data names the buffer (its pointer).
Entry(id, len, own, t) ==
    [data |-> id, length |-> len, written |-> 0, queued_at |-> t,
     written_at |-> 0, write_errno |-> 0, owned |-> own]

\* A flush that looks at the bytes left only.
AttemptsAnyway(qwb) == qwb.written < qwb.length

\* _flushWriteQueue attempts a write on this head buffer.
Attempts(qwb) == qwb.write_errno = 0 /\ qwb.written < qwb.length

\* What lwip_write(_socket, p, n) can return: r bytes, or -1 with an errno.
WriteOutcomes(n) ==
    [r : 1 .. n, errno : {0}] \cup [r : {-1}, errno : {Errno.EAGAIN, Errno.ENOTCONN}]

\* The head buffer after _flushWriteQueue's write returned o at time t.
FlushHead(qwb, o, t) ==
    IF o.r >= 0
    THEN [qwb EXCEPT !.written = @ + o.r,
                     !.written_at = IF qwb.written + o.r >= qwb.length THEN t ELSE @]
    ELSE IF o.errno = Errno.EAGAIN
         THEN qwb
         ELSE [qwb EXCEPT !.write_errno = o.errno]

\* Bytes that left the queue in that write.
FlushBytes(o) == IF o.r >= 0 THEN o.r ELSE 0

\* The bytes of buffer qwb that a write of r bytes puts on the wire.
WireBytes(qwb, r) == [i \in 1 .. r |-> <<qwb.data, qwb.written + i, qwb.length>>]

\* Bytes of the stale slot in front of an empty queue: they belong to no buffer.
StaleBytes(r) == [i \in 1 .. r |-> <<0, 0, 0>>]

\* A queue that takes a new entry in front of the ones it holds.
PushedFront(q, e) == <<e>> \o q

\* _writeQueue.push_back(qwb)
Pushed(q, e) == Append(q, e)

\* ::free(data) of a buffer the queue owns.
FreeOwned(f, qwb) == IF qwb.owned THEN [f EXCEPT ![qwb.data] = @ + 1] ELSE f

RECURSIVE FreeAll(_, _)
FreeAll(f, q) == IF q = <<>> THEN f ELSE FreeAll(FreeOwned(f, Head(q)), Tail(q))

\* connected()
Connected(s) == socket[s] # -1 /\ conn_state[s] = 4

\* space()
Space(s) == IF Connected(s) THEN writeSpaceRemaining[s] ELSE 0

\* socket() returns the lowest free descriptor, or fails.
LowestFree == CHOOSE fd \in Fds : openFds[fd] = 0 /\ \A g \in Fds : g < fd => openFds[g] # 0
CanOpen == nFds < MaxFds /\ \E fd \in Fds : openFds[fd] = 0

\* lwip_close(fd): the descriptor table afterwards (EBADF leaves it alone).
LwipClose(fd) == IF fd \in Fds THEN [openFds EXCEPT ![fd] = 0] ELSE openFds

\* lwip_close(_socket) by client s, as seen per connection: a call on an open
\* descriptor counts for the connection that descriptor is open for, a call on
\* a descriptor that is not open counts again for the client's own connection.
CloseSeen(s) ==
    LET fd == socket[s] IN
    IF fd = -1 THEN nClose
    ELSE IF openFds[fd] # 0 THEN [nClose EXCEPT ![openFds[fd]] = @ + 1]
    ELSE [nClose EXCEPT ![conn[s]] = @ + 1]

Goto(t, label) == pc' = [pc EXCEPT ![t] = label]

\* A teardown that leaves _socket as it was.
SocketKept(s) == socket

\* _socket = -1 on client s.
SocketCleared(s) == [socket EXCEPT ![s] = -1]

\* A store to _conn_state that is lost.
StateKept(s, v) == conn_state

\* _conn_state = v on client s.
StateSet(s, v) == [conn_state EXCEPT ![s] = v]

\* Thread t returns from the call it is in: the application keeps the value
\* returned, the service task drops it.
Return(t, value) ==
    /\ pc' = [pc EXCEPT ![t] = frame[t].ret]
    /\ frame' = [frame EXCEPT ![t] = IF t = "task" THEN NoFrame
                                     ELSE [NoFrame EXCEPT !.result = value]]

\* ------------------------------------------------------------------- Init
\* The program before the application has constructed anything, millis()
\* reading ms.
Started(ms) ==
    /\ registry = <<>>
    /\ kind = [s \in Socks |-> "none"]
    /\ socket = [s \in Socks |-> -1]
    /\ selected = [s \in Socks |-> FALSE]
    /\ isdnsfinished = [s \in Socks |-> FALSE]
    /\ sock_lastactivity = [s \in Socks |-> 0]
    /\ conn_state = [s \in Socks |-> 0]
    /\ writeQueue = [s \in Socks |-> <<>>]
    /\ writeSpaceRemaining = [s \in Socks |-> SndBuf]
    /\ ack_timeout_signaled = [s \in Socks |-> FALSE]
    /\ rx_last_packet = [s \in Socks |-> 0]
    /\ rx_since_timeout = [s \in Socks |-> 0]
    /\ ack_timeout = [s \in Socks |-> ASYNC_MAX_ACK_TIME]
    /\ connect_addr = [s \in Socks |-> 0]
    /\ cbs = [s \in Socks |-> {}]
    /\ asyncsock_mutex = [owner |-> NoThread, count |-> 0]
    /\ write_mutex = [s \in Socks |-> NoThread]
    /\ pc = [t \in Threads |-> IF t = "task" THEN "loop" ELSE "idle"]
    /\ frame = [t \in Threads |-> NoFrame]
    /\ stack = [t \in Threads |-> <<>>]
    /\ sockList = <<>>
    /\ sockSet_r = {}
    /\ nActive = 0
    /\ t1 = 0
    /\ t2 = 0
    /\ now = ms
    /\ openFds = [fd \in Fds |-> 0]
    /\ dnsReq = [s \in Socks |-> FALSE]
    /\ nClock = 0
    /\ nFds = 0
    /\ nJunk = 0
    /\ nDns = 0
    /\ wire = [s \in Socks |-> <<>>]
    /\ cblog = [s \in Socks |-> <<>>]
    /\ freed = [b \in BufIds |-> 0]
    /\ nextBuf = 1
    /\ copied = {}
    /\ conn = [s \in Socks |-> 0]
    /\ nClose = [k \in Conns |-> 0]
    /\ hookTrace = <<>>

\* The program starts with the board's clock at 0.
Init == Started(0)

\* The program starts after the board has been up for Uptime milliseconds.
InitUp == Started(Uptime)

\* ------------------------------------------------- teardown: _close, _error
\* _close() / _error(err), entered with frame.isErr and frame.err set.
\* Lines 741-742 / 758-759: take the registry mutex, _conn_state = 0.
TeardownLock(t) ==
    /\ pc[t] = "td_lock"
    /\ CanTake(t)
    /\ asyncsock_mutex' = Taken(t)
    /\ conn_state' = StateSet(frame[t].this, 0)
    /\ Goto(t, "td_close")
    /\ UNCHANGED <<baseVars, writeQueue, writeSpaceRemaining, ack_timeout_signaled,
                   rx_last_packet, rx_since_timeout, ack_timeout, connect_addr, cbs,
                   write_mutex, stack, frame, taskVars, envVars, obsVars>>

\* Lines 743-749 / 760-766: lwip_close(_socket); _socket = -1; give the mutex.
TeardownClose(t) ==
    /\ pc[t] = "td_close"
    /\ LET s == frame[t].this IN
       /\ openFds' = LwipClose(socket[s])
       /\ nClose' = CloseSeen(s)
       /\ socket' = SocketCleared(s)
    /\ asyncsock_mutex' = Given
    /\ Goto(t, "td_clear")
    /\ UNCHANGED <<registry, kind, selected, isdnsfinished, sock_lastactivity,
                   clientVars, write_mutex, stack, frame, taskVars, now, dnsReq, nDns, nClock, nFds, nJunk,
                   wire, cblog, freed, nextBuf, copied, conn, hookTrace>>

\* _clearWriteQueue, lines 838-845: under the write mutex (taken and given
\* within this step) free what the queue owns and drop every entry.  Then
\* lines 751-752 / 768-770: _error fires _error_cb(err), both fire
\* _discard_cb.
ClearWriteQueue(t) ==
    /\ pc[t] = "td_clear"
    /\ LET s == frame[t].this
           afterErr == IF frame[t].isErr
                       THEN Fired(cblog[s], cbs[s], "error", frame[t].err)
                       ELSE cblog[s] IN
       /\ write_mutex[s] = NoThread
       /\ freed' = FreeAll(freed, writeQueue[s])
       /\ writeQueue' = [writeQueue EXCEPT ![s] = <<>>]
       /\ cblog' = [cblog EXCEPT ![s] = Fired(afterErr, cbs[s], "discard", 0)]
    /\ Goto(t, "td_remove")
    /\ UNCHANGED <<baseVars, conn_state, writeSpaceRemaining, ack_timeout_signaled,
                   rx_last_packet, rx_since_timeout, ack_timeout, connect_addr, cbs,
                   mutexVars, stack, frame, taskVars, envVars,
                   wire, nextBuf, copied, conn, nClose, hookTrace>>

\* _removeAllCallbacks, lines 720-736, at lines 753 / 771: every slot is
\* emptied; return.
RemoveAllCallbacks(t) ==
    /\ pc[t] = "td_remove"
    /\ cbs' = [cbs EXCEPT ![frame[t].this] = {}]
    /\ Return(t, 0)
    /\ UNCHANGED <<baseVars, conn_state, writeQueue, writeSpaceRemaining,
                   ack_timeout_signaled, rx_last_packet, rx_since_timeout, ack_timeout,
                   connect_addr, mutexVars, stack, taskVars, envVars, obsVars>>

Teardown(t) ==
    TeardownLock(t) \/ TeardownClose(t) \/ ClearWriteQueue(t) \/ RemoveAllCallbacks(t)

\* ------------------------------------------------------ connect(ip, port)
\* Lines 454-497: refuse when _socket != -1; socket() and the non-blocking
\* lwip_connect may fail at once (the descriptor is closed again, false is
\* returned); otherwise the descriptor is open and the connect in progress.
ConnectIssue(t) ==
    /\ pc[t] = "cn_check"
    /\ LET s == frame[t].this IN
       \/ /\ socket[s] # -1
          /\ Return(t, 0)
          /\ UNCHANGED <<openFds, nFds>>
       \/ /\ socket[s] = -1
          /\ Return(t, 0)
          /\ UNCHANGED <<openFds, nFds>>
       \/ /\ socket[s] = -1
          /\ CanOpen
          /\ openFds' = [openFds EXCEPT ![LowestFree] = nFds + 1]
          /\ nFds' = nFds + 1
          /\ frame' = [frame EXCEPT ![t].fd = LowestFree]
          /\ Goto(t, "cn_lock")
    /\ UNCHANGED <<baseVars, clientVars, mutexVars, stack, taskVars, now, dnsReq, nDns, nClock, nJunk, obsVars>>

\* Lines 500-501: take the registry mutex, _conn_state = 2.
ConnectLock(t) ==
    /\ pc[t] = "cn_lock"
    /\ CanTake(t)
    /\ asyncsock_mutex' = Taken(t)
    /\ conn_state' = StateSet(frame[t].this, 2)
    /\ Goto(t, "cn_set")
    /\ UNCHANGED <<baseVars, writeQueue, writeSpaceRemaining, ack_timeout_signaled,
                   rx_last_packet, rx_since_timeout, ack_timeout, connect_addr, cbs,
                   write_mutex, stack, frame, taskVars, envVars, obsVars>>

\* Lines 502-507: _socket = sockfd, give the mutex, return true.  A new
\* connection starts: the observation of the previous one is put away.
ConnectSet(t) ==
    /\ pc[t] = "cn_set"
    /\ LET s == frame[t].this IN
       /\ socket' = [socket EXCEPT ![s] = frame[t].fd]
       /\ conn' = [conn EXCEPT ![s] = openFds[frame[t].fd]]
       /\ wire' = [wire EXCEPT ![s] = <<>>]
       /\ cblog' = [cblog EXCEPT ![s] = <<>>]
    /\ asyncsock_mutex' = Given
    /\ Return(t, 1)
    /\ UNCHANGED <<registry, kind, selected, isdnsfinished, sock_lastactivity,
                   clientVars, write_mutex, stack, taskVars, envVars,
                   freed, nextBuf, copied, nClose, hookTrace>>

Connect(t) == ConnectIssue(t) \/ ConnectLock(t) \/ ConnectSet(t)

\* ------------------------------------------------------------ construction
\* A list that takes a new socket in front of the ones it holds.
RegisteredFront(list, s) == <<s>> \o list

\* Line 232: _socketBaseList.push_back(this).
Registered(list, s) == Append(list, s)

\* Line 248: _socketBaseList.remove(this).
Removed(list, s) == SelectSeq(list, LAMBDA x : x # s)

\* The object a new expression constructs next: objects are numbered in the
\* order of their construction, and a number is never used again.
NextObject == CHOOSE s \in Socks : kind[s] = "none" /\ \A r \in Socks : r < s => kind[r] # "none"
CanConstruct == \E s \in Socks : kind[s] = "none"

\* AsyncSocketBase::AsyncSocketBase, lines 222-234, for new AsyncClient(sockfd):
\* sockfd is a descriptor the sockets layer has just accepted, or -1, as
\* accepted says.
CtorBase(accepted) ==
    /\ pc["user"] = "idle"
    /\ CanTake("user")
    /\ Len(registry) < MaxObjs
    /\ CanConstruct
    /\ \E s \in {NextObject} :
        /\ kind' = [kind EXCEPT ![s] = "base"]
        /\ registry' = Registered(registry, s)
        /\ sock_lastactivity' = [sock_lastactivity EXCEPT ![s] = now]
        /\ selected' = [selected EXCEPT ![s] = FALSE]
        /\ \/ /\ FALSE \in accepted
              /\ frame' = [frame EXCEPT !["user"] = [NoFrame EXCEPT !.this = s]]
              /\ UNCHANGED <<openFds, nFds>>
           \/ /\ TRUE \in accepted
              /\ CanOpen
              /\ openFds' = [openFds EXCEPT ![LowestFree] = nFds + 1]
              /\ nFds' = nFds + 1
              /\ frame' = [frame EXCEPT !["user"] = [NoFrame EXCEPT !.this = s, !.fd = LowestFree]]
    /\ Goto("user", "ctor_client")
    /\ UNCHANGED <<socket, isdnsfinished, clientVars, mutexVars, stack, taskVars, now, dnsReq, nDns,
                   nClock, nJunk, obsVars>>

\* AsyncClient::AsyncClient, lines 253-283: the member initialisers, then with
\* a descriptor _conn_state = 4 and _socket = sockfd under the registry mutex.
CtorClient ==
    /\ pc["user"] = "ctor_client"
    /\ LET s == frame["user"].this
           fd == frame["user"].fd IN
       /\ fd # -1 => CanTake("user")
       /\ kind' = [kind EXCEPT ![s] = "client"]
       /\ cbs' = [cbs EXCEPT ![s] = {}]
       /\ rx_last_packet' = [rx_last_packet EXCEPT ![s] = 0]
       /\ rx_since_timeout' = [rx_since_timeout EXCEPT ![s] = 0]
       /\ ack_timeout' = [ack_timeout EXCEPT ![s] = ASYNC_MAX_ACK_TIME]
       /\ writeSpaceRemaining' = [writeSpaceRemaining EXCEPT ![s] = SndBuf]
       /\ conn_state' = StateSet(s, IF fd # -1 THEN 4 ELSE 0)
       /\ socket' = [socket EXCEPT ![s] = fd]
       /\ conn' = [conn EXCEPT ![s] = IF fd # -1 THEN openFds[fd] ELSE 0]
    /\ frame' = [frame EXCEPT !["user"] = NoFrame]
    /\ Goto("user", "idle")
    /\ UNCHANGED <<registry, selected, isdnsfinished, sock_lastactivity, writeQueue,
                   ack_timeout_signaled, connect_addr, mutexVars, stack, taskVars, envVars,
                   wire, cblog, freed, nextBuf, copied, nClose, hookTrace>>

\* --------------------------------------------------------- flush, add, send
\* No write was attempted.
NoWrite == [r |-> -2, errno |-> 0]

\* What _flushWriteQueue (lines 637-667) can do on client s: nothing when
\* _socket == -1 or the head needs no write, else one lwip_write.
FlushOutcomes(s) ==
    IF socket[s] = -1 \/ writeQueue[s] = <<>> THEN {NoWrite}
    ELSE IF Attempts(Head(writeQueue[s]))
         THEN WriteOutcomes(Head(writeQueue[s]).length - Head(writeQueue[s]).written)
         ELSE {NoWrite}

\* The queue after _flushWriteQueue whose write returned o at time t.
Flushed(q, o, t) == IF o = NoWrite THEN q ELSE [q EXCEPT ![1] = FlushHead(q[1], o, t)]

\* _flushWriteQueue's return value.
FlushActivity(o) == o.r >= 0

\* A will_send that is the size asked for, whatever room there is.
WillSendAll(room, size) == size

\* Line 789: will_send = (room < size) ? room : size.
WillSend(room, size) == Min(room, size)

\* add(data, size, apiflags), lines 784-805, with size one of sizes (or 0, or
\* data NULL) and the COPY flag one of copies: the checks, will_send, the
\* copy and the new entry.  The call returns to frame.ret.
AddCheck(sizes, copies) ==
    /\ pc["user"] = "add_check"
    /\ LET s == frame["user"].this IN
       \/ /\ frame' = [frame EXCEPT !["user"].result = 0]   \* data == NULL or size == 0
          /\ Goto("user", frame["user"].ret)
          /\ UNCHANGED <<nextBuf, copied>>
       \/ /\ ~Connected(s) \/ Space(s) = 0
          /\ frame' = [frame EXCEPT !["user"].result = 0]
          /\ Goto("user", frame["user"].ret)
          /\ UNCHANGED <<nextBuf, copied>>
       \/ /\ Connected(s) /\ Space(s) # 0
          /\ TRUE \in copies
          /\ frame' = [frame EXCEPT !["user"].result = 0]   \* malloc returned NULL
          /\ Goto("user", frame["user"].ret)
          /\ UNCHANGED <<nextBuf, copied>>
       \/ /\ Connected(s) /\ Space(s) # 0
          /\ nextBuf <= MaxAdds
          /\ \E size \in sizes, copy \in copies :
                /\ frame' = [frame EXCEPT
                      !["user"].size = size,
                      !["user"].room = Space(s),
                      !["user"].entry = Entry(nextBuf, WillSend(Space(s), size), copy, now)]
                /\ copied' = IF copy THEN copied \cup {nextBuf} ELSE copied
          /\ nextBuf' = nextBuf + 1
          /\ Goto("user", "add_push")
    /\ UNCHANGED <<baseVars, clientVars, mutexVars, stack, taskVars, envVars,
                   wire, cblog, freed, conn, nClose, hookTrace>>

\* Lines 807-813: under the write mutex (taken and given within this step)
\* append the entry, take its length off _writeSpaceRemaining, reset the
\* ack-timeout latch; return will_send to frame.ret.
AddPush ==
    /\ pc["user"] = "add_push"
    /\ LET s == frame["user"].this
           e == frame["user"].entry IN
       /\ write_mutex[s] = NoThread
       /\ writeQueue' = [writeQueue EXCEPT ![s] = Pushed(@, e)]
       /\ writeSpaceRemaining' = [writeSpaceRemaining EXCEPT ![s] = @ - e.length]
       /\ ack_timeout_signaled' = [ack_timeout_signaled EXCEPT ![s] = FALSE]
       /\ frame' = [frame EXCEPT !["user"].result = e.length, !["user"].entry = <<>>,
                                 !["user"].size = 0, !["user"].room = 0]
    /\ Goto("user", frame["user"].ret)
    /\ UNCHANGED <<baseVars, conn_state, rx_last_packet, rx_since_timeout, ack_timeout,
                   connect_addr, cbs, mutexVars, stack, taskVars, envVars, obsVars>>

\* send(), lines 821-831, under the write mutex (taken and given within this
\* step): a zero-timeout select on the descriptor (nfds is 0 for _socket == -1:
\* nothing is writable), and if (r > 0) _flushWriteQueue(); return true.
\* _flushWriteQueue takes _writeQueue.front() without looking at size(): on an
\* empty queue that is the stale slot in front of the deque, whose fields are
\* whatever the memory holds.  Either they ask for no write, or n (1..MaxLen)
\* stale bytes are handed to lwip_write and the bytes it takes are added to
\* _writeSpaceRemaining.
SendFlush ==
    /\ pc["user"] = "snd_lock"
    /\ LET s == frame["user"].this IN
       /\ write_mutex[s] = NoThread
       /\ \/ UNCHANGED <<writeQueue, writeSpaceRemaining, wire, nJunk>>
          \/ /\ socket[s] # -1 /\ writeQueue[s] # <<>>
             /\ \E o \in FlushOutcomes(s) :
                   /\ writeQueue' = [writeQueue EXCEPT ![s] = Flushed(@, o, now)]
                   /\ writeSpaceRemaining' =
                          [writeSpaceRemaining EXCEPT ![s] = @ + FlushBytes(o)]
                   /\ wire' = [wire EXCEPT ![s] = @ \o WireBytes(Head(writeQueue[s]), FlushBytes(o))]
             /\ UNCHANGED nJunk
          \/ /\ socket[s] # -1 /\ writeQueue[s] = <<>>
             /\ nJunk < MaxJunk
             /\ \E r \in 1 .. MaxLen :
                   /\ writeSpaceRemaining' = [writeSpaceRemaining EXCEPT ![s] = @ + r]
                   /\ wire' = [wire EXCEPT ![s] = @ \o StaleBytes(r)]
             /\ nJunk' = nJunk + 1
             /\ UNCHANGED writeQueue
    /\ frame' = [frame EXCEPT !["user"].result = 1]
    /\ Goto("user", frame["user"].ret)
    /\ UNCHANGED <<baseVars, conn_state, ack_timeout_signaled, rx_last_packet,
                   rx_since_timeout, ack_timeout, connect_addr, cbs, mutexVars, stack,
                   taskVars, now, openFds, dnsReq, nDns, nClock, nFds,
                   cblog, freed, nextBuf, copied, conn, nClose, hookTrace>>

\* write(data, size, apiflags), line 861: will_send = add(data, size, apiflags).
WriteAdd ==
    /\ pc["user"] = "wr_add"
    /\ frame' = [frame EXCEPT !["user"].ret = "wr_send"]
    /\ Goto("user", "add_check")
    /\ UNCHANGED <<baseVars, clientVars, mutexVars, stack, taskVars, envVars, obsVars>>

\* Line 862: if (!will_send ...) return 0; else send() is called.
WriteSend ==
    /\ pc["user"] = "wr_send"
    /\ IF frame["user"].result = 0
       THEN /\ frame' = [frame EXCEPT !["user"].ret = "idle"]
            /\ Goto("user", "idle")
       ELSE /\ frame' = [frame EXCEPT !["user"].will_send = frame["user"].result,
                                      !["user"].ret = "wr_ret"]
            /\ Goto("user", "snd_lock")
    /\ UNCHANGED <<baseVars, clientVars, mutexVars, stack, taskVars, envVars, obsVars>>

\* Lines 862-865: if (... !send()) return 0; return will_send.
WriteReturn ==
    /\ pc["user"] = "wr_ret"
    /\ frame' = [frame EXCEPT
          !["user"].result = IF frame["user"].result = 0 THEN 0 ELSE frame["user"].will_send,
          !["user"].will_send = 0,
          !["user"].ret = "idle"]
    /\ Goto("user", "idle")
    /\ UNCHANGED <<baseVars, clientVars, mutexVars, stack, taskVars, envVars, obsVars>>

\* ------------------------------------------------- close, abort, setters
\* The application thread calls a method of client s.
EntryLabel ==
    [connect |-> "cn_check", connect_host |-> "ch_query", close |-> "cl_check",
     abort |-> "ab_check", add |-> "add_check", send |-> "snd_lock",
     write |-> "wr_add"]

UserCall(ops) ==
    /\ pc["user"] = "idle"
    /\ \E s \in Socks, op \in ops :
        /\ kind[s] = "client"
        /\ frame' = [frame EXCEPT !["user"] = [NoFrame EXCEPT !.this = s]]
        /\ Goto("user", EntryLabel[op])
    /\ UNCHANGED <<baseVars, clientVars, mutexVars, stack, taskVars, envVars, obsVars>>

\* A test of the descriptor that always passes.
HasAny(s) == TRUE

\* if (_socket != -1) in close() and abort().
HasDescriptor(s) == socket[s] # -1

\* close(bool now), lines 868-871, called by thread t; it returns to
\* frame.ret.
CloseCheck(t) ==
    /\ pc[t] = "cl_check"
    /\ IF HasDescriptor(frame[t].this)
       THEN /\ frame' = [frame EXCEPT ![t] = Closing([@ EXCEPT !.cause = "close"])]
            /\ Goto(t, "td_lock")
       ELSE /\ UNCHANGED frame
            /\ Goto(t, frame[t].ret)
    /\ UNCHANGED <<baseVars, clientVars, mutexVars, stack, taskVars, envVars, obsVars>>

\* abort(), lines 873-884: with a descriptor, SO_LINGER {1, 0} and _close();
\* ERR_ABRT is returned either way.
AbortCheck ==
    /\ pc["user"] = "ab_check"
    /\ IF HasDescriptor(frame["user"].this)
       THEN /\ frame' = [frame EXCEPT !["user"] =
                               Closing([@ EXCEPT !.ret = "ab_ret", !.cause = "abort"])]
            /\ Goto("user", "td_lock")
       ELSE /\ frame' = [frame EXCEPT !["user"].result = Lwip.ERR_ABRT]
            /\ Goto("user", "idle")
    /\ UNCHANGED <<baseVars, clientVars, mutexVars, stack, taskVars, envVars, obsVars>>

AbortReturn ==
    /\ pc["user"] = "ab_ret"
    /\ frame' = [frame EXCEPT !["user"].result = Lwip.ERR_ABRT, !["user"].ret = "idle"]
    /\ Goto("user", "idle")
    /\ UNCHANGED <<baseVars, clientVars, mutexVars, stack, taskVars, envVars, obsVars>>

\* setAckTimeout / setRxTimeout, lines 292-306.
SetAckTimeout(values) ==
    /\ pc["user"] = "idle"
    /\ \E s \in Socks, v \in values :
        /\ kind[s] = "client" /\ ack_timeout[s] # v
        /\ ack_timeout' = [ack_timeout EXCEPT ![s] = v]
    /\ UNCHANGED <<baseVars, conn_state, writeQueue, writeSpaceRemaining,
                   ack_timeout_signaled, rx_last_packet, rx_since_timeout, connect_addr,
                   cbs, mutexVars, threadVars, taskVars, envVars, obsVars>>

SetRxTimeout ==
    /\ pc["user"] = "idle"
    /\ \E s \in Socks, v \in RxTimeouts :
        /\ kind[s] = "client" /\ rx_since_timeout[s] # v
        /\ rx_since_timeout' = [rx_since_timeout EXCEPT ![s] = v]
    /\ UNCHANGED <<baseVars, conn_state, writeQueue, writeSpaceRemaining,
                   ack_timeout_signaled, rx_last_packet, ack_timeout, connect_addr,
                   cbs, mutexVars, threadVars, taskVars, envVars, obsVars>>

\* onConnect ... onPoll, lines 334-367: the application fills every slot.
SetCallbacks ==
    /\ pc["user"] = "idle"
    /\ \E s \in Socks :
        /\ kind[s] = "client" /\ cbs[s] # CallbackNames
        /\ cbs' = [cbs EXCEPT ![s] = CallbackNames]
    /\ UNCHANGED <<baseVars, conn_state, writeQueue, writeSpaceRemaining,
                   ack_timeout_signaled, rx_last_packet, rx_since_timeout, ack_timeout,
                   connect_addr, mutexVars, threadVars, taskVars, envVars, obsVars>>

\* ------------------------------------------------- connect(host, port), DNS
\* Lines 511-531: dns_gethostbyname answers at once (connect(ip, port)
\* follows), is in progress (_connect_port is kept, true returned) or fails.
ConnectHost ==
    /\ pc["user"] = "ch_query"
    /\ LET s == frame["user"].this IN
       \/ /\ Goto("user", "cn_check")
          /\ UNCHANGED <<dnsReq, nDns, frame>>
       \/ /\ ~dnsReq[s]
          /\ nDns < MaxDns
          /\ dnsReq' = [dnsReq EXCEPT ![s] = TRUE]
          /\ nDns' = nDns + 1
          /\ frame' = [frame EXCEPT !["user"].result = 1]
          /\ Goto("user", "idle")
       \/ /\ frame' = [frame EXCEPT !["user"].result = 0]
          /\ Goto("user", "idle")
          /\ UNCHANGED <<dnsReq, nDns>>
    /\ UNCHANGED <<baseVars, clientVars, mutexVars, stack, taskVars, now, openFds, nClock, nFds,
                   nJunk, obsVars>>

\* _tcpsock_dns_found on the LWIP thread, lines 536-541: keep the address, or
\* zero it when the resolution failed.
DnsFound ==
    /\ pc["lwip"] = "idle"
    /\ \E s \in Socks, addr \in {0, 1} :
        /\ dnsReq[s]
        /\ dnsReq' = [dnsReq EXCEPT ![s] = FALSE]
        /\ UNCHANGED nDns
        /\ connect_addr' = [connect_addr EXCEPT ![s] = addr]
        /\ frame' = [frame EXCEPT !["lwip"] = [NoFrame EXCEPT !.this = s]]
    /\ Goto("lwip", "dns_flag")
    /\ UNCHANGED <<baseVars, conn_state, writeQueue, writeSpaceRemaining,
                   ack_timeout_signaled, rx_last_packet, rx_since_timeout, ack_timeout,
                   cbs, mutexVars, stack, taskVars, now, openFds, nClock, nFds, nJunk, obsVars>>

\* Lines 544-546: under the registry mutex, _isdnsfinished = true.
DnsFlag ==
    /\ pc["lwip"] = "dns_flag"
    /\ CanTake("lwip")
    /\ isdnsfinished' = [isdnsfinished EXCEPT ![frame["lwip"].this] = TRUE]
    /\ frame' = [frame EXCEPT !["lwip"] = NoFrame]
    /\ Goto("lwip", "idle")
    /\ UNCHANGED <<registry, kind, socket, selected, sock_lastactivity, clientVars,
                   mutexVars, stack, taskVars, envVars, obsVars>>

\* The clock: millis() advances by one of steps.
Tick(steps) ==
    /\ nClock < MaxClock
    /\ \E d \in steps : now' = now + d
    /\ nClock' = nClock + 1
    /\ UNCHANGED <<baseVars, clientVars, mutexVars, threadVars, taskVars,
                   openFds, dnsReq, nDns, nFds, nJunk, obsVars>>

\* d ms pass while the service task sleeps in delay(), told from the end:
\* millis() enters the program only in differences now - t (lines 186, 195,
\* 697, 709), so instead of moving now ahead every instant the program has
\* kept moves d ms into the past, no further than the start of the clock.
\* The differences are the true ones up to now, which is enough while no
\* interval the program waits for is longer than now.
Elapse(d) ==
    /\ pc["task"] = "delay"
    /\ now >= d
    /\ LET back(x) == IF x >= d THEN x - d ELSE 0 IN
       /\ sock_lastactivity' = [s \in Socks |-> back(sock_lastactivity[s])]
       /\ rx_last_packet' = [s \in Socks |-> back(rx_last_packet[s])]
       /\ writeQueue' = [s \in Socks |->
              [i \in 1 .. Len(writeQueue[s]) |->
                  [writeQueue[s][i] EXCEPT !.queued_at = back(@), !.written_at = back(@)]]]
       /\ frame' = [t \in Threads |-> [frame[t] EXCEPT !.t = back(@)]]
       /\ t1' = back(t1)
       /\ t2' = back(t2)
    /\ UNCHANGED <<registry, kind, socket, selected, isdnsfinished, conn_state,
                   writeSpaceRemaining, ack_timeout_signaled, rx_since_timeout, ack_timeout,
                   connect_addr, cbs, mutexVars, pc, stack, sockList, sockSet_r, nActive,
                   envVars, obsVars>>

\* The clock advances while the service task sleeps in delay(): its hooks and
\* the application's calls are short against a millisecond.
TickAsleep(steps) == pc["task"] = "delay" /\ Tick(steps)

\* ------------------------------------------------------- the service task
\* The task's own bookkeeping around a hook (taking the socket off its local
\* list, stamping _sock_lastactivity under the registry mutex it holds) is
\* part of the step that runs the hook.

\* FD_ISSET(_socket, set) for a socket of the registry.  For _socket == -1 the
\* macro indexes outside the set: either answer can come back.
FdIsSet(s, set, stray) == IF socket[s] = -1 THEN s \in stray ELSE socket[s] \in set

Listed(test(_)) == SelectSeq(registry, test)

\* Lines 86-114: take the registry mutex, put every open descriptor in both
\* sets and latch _selected, select() with a zero timeout, and when anything
\* is ready collect the writable sockets.
TaskCollect ==
    /\ pc["task"] = "loop"
    /\ CanTake("task")
    /\ asyncsock_mutex' = Taken("task")
    /\ LET open == {s \in Socks : (\E i \in 1 .. Len(registry) : registry[i] = s) /\ socket[s] # -1}
           fds == {socket[s] : s \in open} IN
       /\ selected' = [s \in Socks |-> selected[s] \/ s \in open]
       /\ \E W \in SUBSET fds, R \in SUBSET fds :
            LET isW(s) == s \in open /\ socket[s] \in W
                isDns(s) == isdnsfinished[s] IN
            IF W \cup R # {}
            THEN /\ sockList' = Listed(isW)
                 /\ sockSet_r' = R
                 /\ Goto("task", "wr_next")
            ELSE /\ sockList' = Listed(isDns)
                 /\ sockSet_r' = {}
                 /\ Goto("task", "dns_next")
    /\ t1' = now
    /\ nActive' = 0
    /\ UNCHANGED <<registry, kind, socket, isdnsfinished, sock_lastactivity, clientVars,
                   write_mutex, stack, frame, t2, envVars, obsVars>>

\* A loop over the list whose iterator stays where it is.
Stay(list) == list

\* it++ in the loops over sockList: the sockets still to be notified.
Advance(list) == Tail(list)

\* The task calls a hook of the socket at the head of its list: the frame of
\* the call (h says what the hook met) and the hook trace.
Called(h) == [NoFrame EXCEPT !.this = Head(sockList), !.ret = pc["task"], !.cause = h]
Traced(h) == Append(hookTrace, <<h, Head(sockList)>>)

\* Lines 121-124: a writable hook that reported activity stamps
\* _sock_lastactivity and counts.
Stamped(s, activity) == IF activity THEN [sock_lastactivity EXCEPT ![s] = now]
                        ELSE sock_lastactivity
Counted(activity) == IF activity THEN nActive + 1 ELSE nActive

\* Lines 134-138: after the last writable hook collect the readable sockets.
TaskReadableCollect ==
    /\ pc["task"] = "wr_next"
    /\ sockList = <<>>
    /\ \E stray \in SUBSET {s \in Socks : selected[s] /\ socket[s] = -1} :
         LET isR(s) == selected[s] /\ FdIsSet(s, sockSet_r, stray) IN
         sockList' = Listed(isR)
    /\ sockSet_r' = {}
    /\ Goto("task", "rd_next")
    /\ UNCHANGED <<baseVars, clientVars, mutexVars, stack, frame, nActive, t1, t2, envVars, obsVars>>

\* Lines 158-163: after the last readable hook collect the sockets whose DNS
\* resolution has finished.
TaskDnsCollect ==
    /\ pc["task"] = "rd_next"
    /\ sockList = <<>>
    /\ LET isDns(s) == isdnsfinished[s] IN sockList' = Listed(isDns)
    /\ Goto("task", "dns_next")
    /\ UNCHANGED <<baseVars, clientVars, mutexVars, stack, frame, sockSet_r, nActive, t1, t2,
                   envVars, obsVars>>

\* Lines 180-182: after the last delayed connect give the registry mutex and
\* read t2.
TaskDelay ==
    /\ pc["task"] = "dns_next"
    /\ sockList = <<>>
    /\ asyncsock_mutex' = Given
    /\ t2' = now
    /\ frame' = [frame EXCEPT !["task"] = NoFrame]
    /\ Goto("task", "delay")
    /\ UNCHANGED <<baseVars, clientVars, write_mutex, stack, sockList, sockSet_r, nActive, t1,
                   envVars, obsVars>>

\* Line 186: the delay the task asks for.
DelayFor == IF nActive = 0 /\ t2 - t1 < PollInterval THEN PollInterval - (t2 - t1) ELSE 1

\* Lines 187-197: delay(d) returns once d ticks of 1 ms have gone by (the first
\* of them may be due at once); then take the registry mutex, clear _selected
\* and collect the sockets idle for 125 ms, stamping them.  The locals t1, t2
\* and nActive are not read again before they are assigned.
TaskPollCollect ==
    /\ pc["task"] = "delay"
    /\ now - t2 >= DelayFor - 1
    /\ CanTake("task")
    /\ asyncsock_mutex' = Taken("task")
    /\ LET due(s) == ElapsedAtLeast(now, sock_lastactivity[s], PollInterval)
           inReg(s) == \E i \in 1 .. Len(registry) : registry[i] = s IN
       /\ selected' = [s \in Socks |-> IF inReg(s) THEN FALSE ELSE selected[s]]
       /\ sock_lastactivity' = [s \in Socks |-> IF inReg(s) /\ due(s) THEN now
                                                ELSE sock_lastactivity[s]]
       /\ sockList' = Listed(due)
    /\ t1' = 0 /\ t2' = 0 /\ nActive' = 0
    /\ Goto("task", "poll_next")
    /\ UNCHANGED <<registry, kind, socket, isdnsfinished, clientVars, write_mutex, stack, frame,
                   sockSet_r, envVars, obsVars>>

\* Line 215: after the last poll hook give the registry mutex; the tick ends.
TaskPollEnd ==
    /\ pc["task"] = "poll_next"
    /\ sockList = <<>>
    /\ asyncsock_mutex' = Given
    /\ frame' = [frame EXCEPT !["task"] = NoFrame]
    /\ hookTrace' = <<>>
    /\ Goto("task", "loop")
    /\ UNCHANGED <<baseVars, clientVars, write_mutex, stack, taskVars, envVars,
                   wire, cblog, freed, nextBuf, copied, conn, nClose>>

\* A hook that leaves a written buffer at the head.
RetiresNever(qwb) == FALSE

\* ------------------------------------------------------ AsyncClient hooks
\* The head buffer is to be retired: no error on it and fully written.
Retires(qwb) == qwb.write_errno = 0 /\ qwb.written >= qwb.length

\* What getsockopt(SO_ERROR) reports for a finished connect: 0, or an errno.
ConnectOutcomes == {0, Errno.ECONNREFUSED}

\* Lines 115-125 calling _sockIsWriteable, case 2/3, lines 580-600: SO_ERROR
\* of the finished connect is 0 (ESTABLISHED, on_connect) or an error
\* (_error).  The base class hook (AsyncTCP.h line 69) does nothing and
\* returns false.
WritableConnecting ==
    /\ pc["task"] = "wr_next"
    /\ sockList # <<>>
    /\ LET s == Head(sockList) IN
       /\ kind[s] = "client" => conn_state[s] \in {2, 3}
       /\ \E e \in (IF kind[s] = "client" THEN ConnectOutcomes ELSE {-1}) :
            CASE e = -1 ->
                   UNCHANGED <<conn_state, rx_last_packet, ack_timeout_signaled, cblog,
                               sock_lastactivity, nActive, pc, frame>>
              [] e = 0 ->
                   /\ conn_state' = StateSet(s, 4)
                   /\ rx_last_packet' = [rx_last_packet EXCEPT ![s] = now]
                   /\ ack_timeout_signaled' = [ack_timeout_signaled EXCEPT ![s] = FALSE]
                   /\ cblog' = Fire(s, "connect", 0)
                   /\ sock_lastactivity' = Stamped(s, TRUE)
                   /\ nActive' = Counted(TRUE)
                   /\ UNCHANGED <<pc, frame>>
              [] OTHER ->
                   /\ frame' = [frame EXCEPT !["task"] = Failing(Called("connect failed"), e)]
                   /\ Goto("task", "td_lock")
                   /\ UNCHANGED <<conn_state, rx_last_packet, ack_timeout_signaled, cblog,
                                  sock_lastactivity, nActive>>
    /\ sockList' = Advance(sockList)
    /\ hookTrace' = Traced("writable")
    /\ UNCHANGED <<registry, kind, socket, selected, isdnsfinished, writeQueue,
                   writeSpaceRemaining, rx_since_timeout, ack_timeout, connect_addr, cbs,
                   mutexVars, stack, sockSet_r, t1, t2, envVars, wire, freed, nextBuf, copied, conn, nClose>>

\* Lines 115-125 calling _sockIsWriteable, case 4/default, lines 601-631:
\* under the write mutex (taken and given within this step) flush the head
\* buffer; note its errno, or retire it when it is fully written.  Then
\* _error(sent_errno), or on_ack for the retired buffer (logged with the
\* buffer it is about).
WritableFlush ==
    /\ pc["task"] = "wr_next"
    /\ sockList # <<>>
    /\ LET s == Head(sockList)
           q == writeQueue[s] IN
       /\ kind[s] = "client" /\ conn_state[s] \notin {2, 3}
       /\ write_mutex[s] = NoThread
       /\ IF q = <<>>
          THEN UNCHANGED <<writeQueue, writeSpaceRemaining, wire, rx_last_packet,
                           freed, frame, cblog, sock_lastactivity, nActive, pc>>
          ELSE \E o \in FlushOutcomes(s) :
                 LET q1 == Flushed(q, o, now)
                     h == Head(q1) IN
                 /\ writeQueue' = [writeQueue EXCEPT ![s] = IF Retires(h) THEN Tail(q1) ELSE q1]
                 /\ writeSpaceRemaining' =
                        [writeSpaceRemaining EXCEPT ![s] = @ + FlushBytes(o)]
                 /\ wire' = [wire EXCEPT ![s] = @ \o WireBytes(Head(q), FlushBytes(o))]
                 /\ rx_last_packet' =
                        [rx_last_packet EXCEPT ![s] =
                            IF Retires(h) /\ h.written_at > @ THEN h.written_at ELSE @]
                 /\ freed' = IF Retires(h) THEN FreeOwned(freed, h) ELSE freed
                 /\ cblog' = IF Retires(h) THEN Fire(s, "sent", h.data) ELSE cblog
                 /\ IF h.write_errno # 0
                    THEN /\ frame' = [frame EXCEPT !["task"] =
                                Failing(Called("write failed"), h.write_errno)]
                         /\ Goto("task", "td_lock")
                         /\ UNCHANGED <<sock_lastactivity, nActive>>
                    ELSE /\ sock_lastactivity' = Stamped(s, FlushActivity(o))
                         /\ nActive' = Counted(FlushActivity(o))
                         /\ UNCHANGED <<pc, frame>>
    /\ sockList' = Advance(sockList)
    /\ hookTrace' = Traced("writable")
    /\ UNCHANGED <<registry, kind, socket, selected, isdnsfinished, conn_state,
                   ack_timeout_signaled, rx_since_timeout, ack_timeout, connect_addr, cbs,
                   mutexVars, stack, sockSet_r, t1, t2, envVars, nextBuf, copied, conn, nClose>>

\* What lwip_read(_socket, _readBuffer, MAX_PAYLOAD_SIZE) can return: bytes
\* ("data"), 0 ("eof"), or -1 with an errno; on descriptor -1 it is EBADF.
ReadOutcomes(s) ==
    IF socket[s] = -1 THEN {[r |-> "error", errno |-> Errno.EBADF]}
    ELSE {[r |-> "data", errno |-> 0], [r |-> "eof", errno |-> 0],
          [r |-> "error", errno |-> Errno.EAGAIN], [r |-> "error", errno |-> Errno.ECONNRESET]}

\* Lines 139-154 (stamp _sock_lastactivity, call, nActive++) calling
\* _sockIsReadable, lines 669-687 (AsyncTCP.h line 68 for an object that is
\* only a base).  on_data is a callback without effect on the client, not
\* logged.
Readable ==
    /\ pc["task"] = "rd_next"
    /\ sockList # <<>>
    /\ kind[Head(sockList)] # "server"
    /\ LET s == Head(sockList) IN
       IF kind[s] # "client"
       THEN UNCHANGED <<rx_last_packet, pc, frame>>
       ELSE /\ rx_last_packet' = [rx_last_packet EXCEPT ![s] = now]
            /\ \E o \in ReadOutcomes(s) :
                 CASE o.r = "data" -> UNCHANGED <<pc, frame>>
                   [] o.r = "eof" ->
                        /\ frame' = [frame EXCEPT !["task"] = Closing(Called("eof"))]
                        /\ Goto("task", "td_lock")
                   [] o.r = "error" /\ o.errno = Errno.EAGAIN -> UNCHANGED <<pc, frame>>
                   [] OTHER ->
                        /\ frame' = [frame EXCEPT !["task"] =
                               Failing(Called("read failed"), o.errno)]
                        /\ Goto("task", "td_lock")
    /\ sock_lastactivity' = Stamped(Head(sockList), TRUE)
    /\ nActive' = Counted(TRUE)
    /\ sockList' = Advance(sockList)
    /\ hookTrace' = Traced("readable")
    /\ UNCHANGED <<registry, kind, socket, selected, isdnsfinished, conn_state, writeQueue,
                   writeSpaceRemaining, ack_timeout_signaled, rx_since_timeout, ack_timeout,
                   connect_addr, cbs, mutexVars, stack, sockSet_r, t1, t2, envVars,
                   wire, cblog, freed, nextBuf, copied, conn, nClose>>

\* A dispatch that leaves _isdnsfinished as it was.
DnsPending(s) == isdnsfinished

\* Line 170: _isdnsfinished = false on socket s.
DnsHandled(s) == [isdnsfinished EXCEPT ![s] = FALSE]

\* Lines 164-178 (clear _isdnsfinished, call) calling _sockDelayedConnect,
\* lines 552-564: connect to the resolved address, or fire on_error(-55) and
\* then on_disconnect.
DelayedConnect ==
    /\ pc["task"] = "dns_next"
    /\ sockList # <<>>
    /\ LET s == Head(sockList) IN
       IF kind[s] # "client"
       THEN UNCHANGED <<cblog, pc, frame>>
       ELSE IF connect_addr[s] # 0
       THEN /\ frame' = [frame EXCEPT !["task"] = Called("delayed")]
            /\ Goto("task", "cn_check")
            /\ UNCHANGED cblog
       ELSE /\ cblog' = [cblog EXCEPT ![s] =
                   Fired(Fired(@, cbs[s], "error", DnsFailed), cbs[s], "discard", 0)]
            /\ UNCHANGED <<pc, frame>>
    /\ isdnsfinished' = DnsHandled(Head(sockList))
    /\ sockList' = Advance(sockList)
    /\ hookTrace' = Traced("delayed")
    /\ UNCHANGED <<registry, kind, socket, selected, sock_lastactivity, clientVars, mutexVars, stack,
                   sockSet_r, nActive, t1, t2, envVars, wire, freed, nextBuf, copied, conn, nClose>>

\* Lines 200-214 calling _sockPoll, lines 691-693: nothing without a
\* descriptor; else read millis().
PollEnter ==
    /\ pc["task"] = "poll_next"
    /\ sockList # <<>>
    /\ LET s == Head(sockList) IN
       IF kind[s] # "client" \/ socket[s] = -1
       THEN UNCHANGED <<pc, frame>>
       ELSE /\ frame' = [frame EXCEPT !["task"] = [Called("poll") EXCEPT !.t = now]]
            /\ Goto("task", "p_lock")
    /\ sockList' = Advance(sockList)
    /\ hookTrace' = Traced("poll")
    /\ UNCHANGED <<baseVars, clientVars, mutexVars, stack, sockSet_r, nActive, t1, t2, envVars,
                   wire, cblog, freed, nextBuf, copied, conn, nClose>>

\* The buffers at the two ends of a queue that is not empty.
QueueEnds(q) == <<q[1].data, q[Len(q)].data>>

\* The ack-timeout condition of line 698 for client s, with now as read before
\* the write mutex was taken.
AckTimedOut(s, t) ==
    /\ writeQueue[s] # <<>>
    /\ ~ack_timeout_signaled[s]
    /\ ack_timeout[s] # 0
    /\ ElapsedAtLeast(t, Head(writeQueue[s]).queued_at, ack_timeout[s])

\* Lines 696-717, with now as read before: under the write mutex (taken and
\* given within this step) test the head buffer's staleness; on an ack timeout
\* set the latch and fire on_timeout (logged with the head buffer it is
\* about and the last buffer queued); else on an RX timeout _close(); else
\* on_poll (a callback without effect on the client, not logged).
PollCheck ==
    /\ pc["task"] = "p_lock"
    /\ LET s == frame["task"].this
           t == frame["task"].t IN
       /\ write_mutex[s] = NoThread
       /\ IF AckTimedOut(s, t)
          THEN /\ ack_timeout_signaled' = [ack_timeout_signaled EXCEPT ![s] = TRUE]
               /\ cblog' = Fire(s, "timeout", QueueEnds(writeQueue[s]))
               /\ frame' = [frame EXCEPT !["task"] = NoFrame]
               /\ Goto("task", "poll_next")
          ELSE IF /\ rx_since_timeout[s] # 0
                  /\ ElapsedAtLeast(t, rx_last_packet[s], rx_since_timeout[s] * 1000)
          THEN /\ frame' = [frame EXCEPT !["task"] =
                                  Closing([@ EXCEPT !.t = 0, !.cause = "rx timeout"])]
               /\ Goto("task", "td_lock")
               /\ UNCHANGED <<ack_timeout_signaled, cblog>>
          ELSE /\ frame' = [frame EXCEPT !["task"] = NoFrame]
               /\ Goto("task", "poll_next")
               /\ UNCHANGED <<ack_timeout_signaled, cblog>>
    /\ UNCHANGED <<baseVars, conn_state, writeQueue, writeSpaceRemaining, rx_last_packet,
                   rx_since_timeout, ack_timeout, connect_addr, cbs, mutexVars, stack,
                   taskVars, envVars, wire, freed, nextBuf, copied, conn, nClose, hookTrace>>

\* ------------------------------------------------- calls made by callbacks
\* Thread t is inside a call and makes another one: the frame it is in is
\* kept, with the place to go on at, until the inner call has returned.
Nested(t, label) == Append(stack[t], [pc |-> label, frame |-> frame[t]])

\* The inner call has returned: thread t goes on in the call it was in.
Resume(t) ==
    /\ pc[t] = "resume"
    /\ stack[t] # <<>>
    /\ LET outer == stack[t][Len(stack[t])] IN
       /\ pc' = [pc EXCEPT ![t] = outer.pc]
       /\ frame' = [frame EXCEPT ![t] = outer.frame]
    /\ stack' = [stack EXCEPT ![t] = SubSeq(@, 1, Len(@) - 1)]
    /\ UNCHANGED <<baseVars, clientVars, mutexVars, taskVars, envVars, obsVars>>

\* ------------------------------------------------- AsyncServer, destructors
\* new AsyncServer(port): AsyncSocketBase::AsyncSocketBase, lines 222-234,
\* registers the object under the registry mutex; AsyncServer::AsyncServer,
\* lines 941-947, leaves it without descriptor and without callback.
CtorServer ==
    /\ pc["user"] = "idle"
    /\ CanTake("user")
    /\ CanConstruct
    /\ LET s == NextObject IN
       /\ kind' = [kind EXCEPT ![s] = "server"]
       /\ registry' = Registered(registry, s)
       /\ sock_lastactivity' = [sock_lastactivity EXCEPT ![s] = now]
       /\ selected' = [selected EXCEPT ![s] = FALSE]
       /\ cbs' = [cbs EXCEPT ![s] = {}]
    /\ UNCHANGED <<socket, isdnsfinished, conn_state, writeQueue, writeSpaceRemaining,
                   ack_timeout_signaled, rx_last_packet, rx_since_timeout, ack_timeout,
                   connect_addr, mutexVars, threadVars, taskVars, envVars, obsVars>>

\* onClient(cb, arg), lines 953-956.
OnClient ==
    /\ pc["user"] = "idle"
    /\ \E s \in Socks :
        /\ kind[s] = "server" /\ cbs[s] = {}
        /\ cbs' = [cbs EXCEPT ![s] = {"connect"}]
    /\ UNCHANGED <<baseVars, conn_state, writeQueue, writeSpaceRemaining,
                   ack_timeout_signaled, rx_last_packet, rx_since_timeout, ack_timeout,
                   connect_addr, mutexVars, threadVars, taskVars, envVars, obsVars>>

\* begin(), lines 958-1000: nothing with a descriptor already; socket(), bind
\* and listen may fail (the descriptor is closed again); else _socket = sockfd
\* under the registry mutex.
ServerBegin ==
    /\ pc["user"] = "idle"
    /\ CanTake("user")
    /\ CanOpen
    /\ \E s \in Socks :
        /\ kind[s] = "server" /\ socket[s] = -1
        /\ socket' = [socket EXCEPT ![s] = LowestFree]
        /\ conn' = [conn EXCEPT ![s] = nFds + 1]
    /\ openFds' = [openFds EXCEPT ![LowestFree] = nFds + 1]
    /\ nFds' = nFds + 1
    /\ UNCHANGED <<registry, kind, selected, isdnsfinished, sock_lastactivity, clientVars,
                   mutexVars, threadVars, taskVars, now, dnsReq, nDns, nClock, nJunk,
                   wire, cblog, freed, nextBuf, copied, nClose, hookTrace>>

\* Lines 139-154 calling AsyncServer::_sockIsReadable, lines 1015-1040, on the
\* service task, which holds the registry mutex: without callback nothing;
\* else accept, which may fail; else new AsyncClient(accepted_sockfd), whose
\* constructors (lines 222-234, 253-283) register it and make it ESTABLISHED
\* under the recursive mutex, and _connect_cb(c), logged with the new client.
ServerReadable ==
    /\ pc["task"] = "rd_next"
    /\ sockList # <<>>
    /\ kind[Head(sockList)] = "server"
    /\ LET s == Head(sockList) IN
       \/ /\ UNCHANGED <<registry, kind, socket, selected, conn_state, cbs, rx_last_packet,
                         rx_since_timeout, ack_timeout, writeSpaceRemaining, conn, cblog,
                         openFds, nFds>>
          /\ sock_lastactivity' = Stamped(s, TRUE)
       \/ /\ "connect" \in cbs[s] /\ socket[s] # -1
          /\ CanOpen /\ CanConstruct
          /\ LET c == NextObject
                 fd == LowestFree IN
             /\ openFds' = [openFds EXCEPT ![fd] = nFds + 1]
             /\ nFds' = nFds + 1
             /\ kind' = [kind EXCEPT ![c] = "client"]
             /\ registry' = Registered(registry, c)
             /\ sock_lastactivity' = [Stamped(s, TRUE) EXCEPT ![c] = now]
             /\ selected' = [selected EXCEPT ![c] = FALSE]
             /\ cbs' = [cbs EXCEPT ![c] = {}]
             /\ rx_last_packet' = [rx_last_packet EXCEPT ![c] = 0]
             /\ rx_since_timeout' = [rx_since_timeout EXCEPT ![c] = 0]
             /\ ack_timeout' = [ack_timeout EXCEPT ![c] = ASYNC_MAX_ACK_TIME]
             /\ writeSpaceRemaining' = [writeSpaceRemaining EXCEPT ![c] = SndBuf]
             /\ conn_state' = StateSet(c, 4)
             /\ socket' = [socket EXCEPT ![c] = fd]
             /\ conn' = [conn EXCEPT ![c] = nFds + 1]
             /\ cblog' = Fire(s, "connect", c)
    /\ nActive' = Counted(TRUE)
    /\ sockList' = Advance(sockList)
    /\ hookTrace' = Traced("readable")
    /\ UNCHANGED <<isdnsfinished, writeQueue, ack_timeout_signaled, connect_addr,
                   mutexVars, threadVars, sockSet_r, t1, t2, now, dnsReq, nDns, nClock, nJunk,
                   wire, freed, nextBuf, copied, nClose>>

\* end(), lines 1002-1013, on server s: the descriptor table and _socket
\* afterwards (under the registry mutex).
ServerEnded(s) ==
    /\ openFds' = LwipClose(socket[s])
    /\ nClose' = CloseSeen(s)
    /\ socket' = SocketCleared(s)

\* delete of a client or a server by the application.
Delete ==
    /\ pc["user"] = "idle"
    /\ \E s \in Socks :
        /\ kind[s] \in {"client", "server"}
        /\ frame' = [frame EXCEPT !["user"] = [NoFrame EXCEPT !.this = s, !.cause = "delete"]]
    /\ Goto("user", "dtor")
    /\ UNCHANGED <<baseVars, clientVars, mutexVars, stack, taskVars, envVars, obsVars>>

\* AsyncClient::~AsyncClient, line 287: if (_socket != -1) _close().
DtorClient ==
    /\ pc["user"] = "dtor"
    /\ kind[frame["user"].this] = "client"
    /\ IF HasDescriptor(frame["user"].this)
       THEN /\ stack' = [stack EXCEPT !["user"] = Nested("user", "dtor_members")]
            /\ frame' = [frame EXCEPT !["user"] = Closing([@ EXCEPT !.ret = "resume"])]
            /\ Goto("user", "td_lock")
       ELSE /\ Goto("user", "dtor_members")
            /\ UNCHANGED <<frame, stack>>
    /\ UNCHANGED <<baseVars, clientVars, mutexVars, taskVars, envVars, obsVars>>

\* AsyncServer::~AsyncServer, lines 949-951: end(); from here on the object is
\* only a base.
DtorServer ==
    /\ pc["user"] = "dtor"
    /\ LET s == frame["user"].this IN
       /\ kind[s] = "server"
       /\ IF socket[s] # -1
          THEN CanTake("user") /\ ServerEnded(s)
          ELSE UNCHANGED <<openFds, nClose, socket>>
       /\ kind' = [kind EXCEPT ![s] = "base"]
    /\ Goto("user", "dtor_base")
    /\ UNCHANGED <<registry, selected, isdnsfinished, sock_lastactivity, clientVars,
                   mutexVars, stack, frame, taskVars, now, dnsReq, nDns, nClock, nFds, nJunk,
                   wire, cblog, freed, nextBuf, copied, conn, hookTrace>>

\* Lines 288-290: the write mutex is deleted and the members are destroyed;
\* from here on the object is only a base.
DtorMembers ==
    /\ pc["user"] = "dtor_members"
    /\ kind' = [kind EXCEPT ![frame["user"].this] = "base"]
    /\ Goto("user", "dtor_base")
    /\ UNCHANGED <<registry, socket, selected, isdnsfinished, sock_lastactivity, clientVars,
                   mutexVars, stack, frame, taskVars, envVars, obsVars>>

\* AsyncSocketBase::~AsyncSocketBase, lines 243-250: under the registry mutex
\* the object is taken out of the list; its memory is released.
DtorBase ==
    /\ pc["user"] = "dtor_base"
    /\ CanTake("user")
    /\ registry' = Removed(registry, frame["user"].this)
    /\ kind' = [kind EXCEPT ![frame["user"].this] = "dead"]
    /\ frame' = [frame EXCEPT !["user"] = NoFrame]
    /\ Goto("user", "idle")
    /\ UNCHANGED <<socket, selected, isdnsfinished, sock_lastactivity, clientVars,
                   mutexVars, stack, taskVars, envVars, obsVars>>

\* Lines 139-154 calling _sockIsReadable, lines 671-676: lwip_read returned
\* bytes and _recv_cb is set, so the application's on_data handler begins on
\* the service task.
RecvCallback ==
    /\ pc["task"] = "rd_next"
    /\ sockList # <<>>
    /\ LET s == Head(sockList) IN
       /\ kind[s] = "client" /\ socket[s] # -1 /\ "recv" \in cbs[s]
       /\ rx_last_packet' = [rx_last_packet EXCEPT ![s] = now]
       /\ sock_lastactivity' = Stamped(s, TRUE)
    /\ frame' = [frame EXCEPT !["task"] = Called("recv")]
    /\ Goto("task", "cb_body")
    /\ nActive' = Counted(TRUE)
    /\ sockList' = Advance(sockList)
    /\ hookTrace' = Traced("readable")
    /\ UNCHANGED <<registry, kind, socket, selected, isdnsfinished, conn_state, writeQueue,
                   writeSpaceRemaining, ack_timeout_signaled, rx_since_timeout, ack_timeout,
                   connect_addr, cbs, mutexVars, stack, sockSet_r, t1, t2, envVars,
                   wire, cblog, freed, nextBuf, copied, conn, nClose>>

\* The handler that thread t is running calls close() on its client
\* (AsyncClient::close, line 868).
HandlerCloses(t) ==
    /\ pc[t] = "cb_body"
    /\ stack' = [stack EXCEPT ![t] = Nested(t, "cb_body")]
    /\ frame' = [frame EXCEPT ![t] = [NoFrame EXCEPT !.this = frame[t].this, !.ret = "resume"]]
    /\ Goto(t, "cl_check")
    /\ UNCHANGED <<baseVars, clientVars, mutexVars, taskVars, envVars, obsVars>>

\* The handler returns to the hook that called it, and the hook to the task.
HandlerReturns(t) ==
    /\ pc[t] = "cb_body"
    /\ pc' = [pc EXCEPT ![t] = frame[t].ret]
    /\ frame' = [frame EXCEPT ![t] = NoFrame]
    /\ UNCHANGED <<baseVars, clientVars, mutexVars, stack, taskVars, envVars, obsVars>>

\* ------------------------------------------- the write mutex, step by step
\* The sections under _write_mutex once more, with the mutex held from one
\* step to the next: a section is the step that takes the mutex and runs the
\* lines under it, the step that gives the mutex, and the step that runs the
\* lines after it.  A callback that fires enters its handler ("cb_body"),
\* which may call close(), add() or send() on its client before it returns.

\* xSemaphoreTake(_write_mutex, portMAX_DELAY) returns only when nobody holds
\* the mutex (it is not recursive): the caller waits otherwise.
CanTakeWrite(s) == write_mutex[s] = NoThread
WriteTaken(t, s) == [write_mutex EXCEPT ![s] = t]

\* A section that leaves without giving the mutex.
WriteKept(s) == write_mutex

\* xSemaphoreGive(_write_mutex).
WriteGiven(s) == [write_mutex EXCEPT ![s] = NoThread]

\* The frame of the handler of callback name of client s, called from a hook
\* that goes on at label.
Handling(s, name, label) == [NoFrame EXCEPT !.this = s, !.cause = name, !.ret = label]

\* The handler of on_disconnect that thread t is running (line 752 / 770,
\* before _removeAllCallbacks) deletes a client c for which free() is true
\* and which has no descriptor: ~AsyncClient (lines 285-290) calls no
\* _close(), ~AsyncSocketBase (lines 243-250) takes the client out of the
\* registry under the recursive registry mutex.
HandlerDeletes(t) ==
    /\ pc[t] = "td_remove"
    /\ "discard" \in cbs[frame[t].this]
    /\ CanTake(t)
    /\ \E c \in Socks :
        /\ kind[c] = "client" /\ socket[c] = -1
        /\ registry' = Removed(registry, c)
        /\ kind' = [kind EXCEPT ![c] = "dead"]
    /\ UNCHANGED <<socket, selected, isdnsfinished, sock_lastactivity, clientVars,
                   mutexVars, threadVars, taskVars, envVars, obsVars>>

\* Lines 604-622, case 4 of _sockIsWriteable: take the write mutex, flush the
\* head buffer and retire it when it is written; hasErr, sent_errno and the
\* retired buffer stay in the frame.
WritableLocked ==
    /\ pc["task"] = "wr_next"
    /\ sockList # <<>>
    /\ LET s == Head(sockList)
           q == writeQueue[s] IN
       /\ kind[s] = "client" /\ conn_state[s] \notin {2, 3}
       /\ CanTakeWrite(s)
       /\ write_mutex' = WriteTaken("task", s)
       /\ IF q = <<>>
          THEN /\ frame' = [frame EXCEPT !["task"] = Called("writable")]
               /\ UNCHANGED <<writeQueue, writeSpaceRemaining, wire, rx_last_packet, freed>>
          ELSE \E o \in FlushOutcomes(s) :
                 LET q1 == Flushed(q, o, now)
                     h == Head(q1) IN
                 /\ writeQueue' = [writeQueue EXCEPT ![s] = IF Retires(h) THEN Tail(q1) ELSE q1]
                 /\ writeSpaceRemaining' =
                        [writeSpaceRemaining EXCEPT ![s] = @ + FlushBytes(o)]
                 /\ wire' = [wire EXCEPT ![s] = @ \o WireBytes(Head(q), FlushBytes(o))]
                 /\ rx_last_packet' =
                        [rx_last_packet EXCEPT ![s] =
                            IF Retires(h) /\ h.written_at > @ THEN h.written_at ELSE @]
                 /\ freed' = IF Retires(h) THEN FreeOwned(freed, h) ELSE freed
                 /\ frame' = [frame EXCEPT !["task"] =
                        [Called("writable") EXCEPT
                            !.isErr = h.write_errno # 0,
                            !.err = h.write_errno,
                            !.entry = IF Retires(h) THEN h ELSE <<>>,
                            !.result = IF FlushActivity(o) THEN 1 ELSE 0]]
    /\ Goto("task", "w_give")
    /\ sockList' = Advance(sockList)
    /\ hookTrace' = Traced("writable")
    /\ UNCHANGED <<baseVars, conn_state, ack_timeout_signaled, rx_since_timeout, ack_timeout,
                   connect_addr, cbs, asyncsock_mutex, stack, sockSet_r, nActive, t1, t2,
                   envVars, cblog, nextBuf, copied, conn, nClose>>

\* Line 623.
WritableGive ==
    /\ pc["task"] = "w_give"
    /\ write_mutex' = WriteGiven(frame["task"].this)
    /\ Goto("task", "w_fire")
    /\ UNCHANGED <<baseVars, clientVars, asyncsock_mutex, stack, frame, taskVars, envVars,
                   obsVars>>

\* Lines 625-629, and lines 121-124 of the task: _error(sent_errno), or
\* _sent_cb for the retired buffer; the activity is stamped and counted.
WritableFire ==
    /\ pc["task"] = "w_fire"
    /\ LET s == frame["task"].this
           f == frame["task"] IN
       IF f.isErr
       THEN /\ frame' = [frame EXCEPT !["task"] =
                            Failing([Handling(s, "write failed", f.ret) EXCEPT !.cause = "write failed"],
                                    f.err)]
            /\ Goto("task", "td_lock")
            /\ UNCHANGED <<cblog, sock_lastactivity, nActive>>
       ELSE /\ sock_lastactivity' = Stamped(s, f.result = 1)
            /\ nActive' = Counted(f.result = 1)
            /\ IF f.entry # <<>> /\ "sent" \in cbs[s]
               THEN /\ cblog' = Fire(s, "sent", f.entry.data)
                    /\ frame' = [frame EXCEPT !["task"] = Handling(s, "sent", f.ret)]
                    /\ Goto("task", "cb_body")
               ELSE /\ frame' = [frame EXCEPT !["task"] = NoFrame]
                    /\ Goto("task", f.ret)
                    /\ UNCHANGED cblog
    /\ UNCHANGED <<registry, kind, socket, selected, isdnsfinished, clientVars, mutexVars,
                   stack, sockList, sockSet_r, t1, t2, envVars,
                   wire, freed, nextBuf, copied, conn, nClose, hookTrace>>

\* Lines 696-700 of _sockPoll, with now as read before: take the write mutex
\* and test the head buffer's staleness; on an ack timeout set the latch.
PollLocked ==
    /\ pc["task"] = "p_lock"
    /\ LET s == frame["task"].this
           t == frame["task"].t IN
       /\ CanTakeWrite(s)
       /\ write_mutex' = WriteTaken("task", s)
       /\ IF AckTimedOut(s, t)
          THEN /\ ack_timeout_signaled' = [ack_timeout_signaled EXCEPT ![s] = TRUE]
               /\ frame' = [frame EXCEPT !["task"].cause = "ack timeout",
                                         !["task"].entry = QueueEnds(writeQueue[s])]
          ELSE UNCHANGED <<ack_timeout_signaled, frame>>
    /\ Goto("task", "p_give")
    /\ UNCHANGED <<baseVars, conn_state, writeQueue, writeSpaceRemaining, rx_last_packet,
                   rx_since_timeout, ack_timeout, connect_addr, cbs, asyncsock_mutex, stack,
                   taskVars, envVars, obsVars>>

\* Line 701 / line 706.
PollGive ==
    /\ pc["task"] = "p_give"
    /\ write_mutex' = WriteGiven(frame["task"].this)
    /\ Goto("task", "p_fire")
    /\ UNCHANGED <<baseVars, clientVars, asyncsock_mutex, stack, frame, taskVars, envVars,
                   obsVars>>

\* Lines 702-704: _timeout_cb and return; or lines 708-717: on an RX timeout
\* _close(), else _poll_cb.
PollFire ==
    /\ pc["task"] = "p_fire"
    /\ LET s == frame["task"].this
           f == frame["task"]
           called(name) == name \in cbs[s] IN
       IF f.cause = "ack timeout"
       THEN /\ cblog' = Fire(s, "timeout", f.entry)
            /\ frame' = [frame EXCEPT !["task"] =
                            IF called("timeout") THEN Handling(s, "timeout", f.ret) ELSE NoFrame]
            /\ Goto("task", IF called("timeout") THEN "cb_body" ELSE f.ret)
       ELSE IF /\ rx_since_timeout[s] # 0
               /\ ElapsedAtLeast(f.t, rx_last_packet[s], rx_since_timeout[s] * 1000)
       THEN /\ frame' = [frame EXCEPT !["task"] =
                            Closing([@ EXCEPT !.t = 0, !.cause = "rx timeout"])]
            /\ Goto("task", "td_lock")
            /\ UNCHANGED cblog
       ELSE /\ frame' = [frame EXCEPT !["task"] =
                            IF called("poll") THEN Handling(s, "poll", f.ret) ELSE NoFrame]
            /\ Goto("task", IF called("poll") THEN "cb_body" ELSE f.ret)
            /\ UNCHANGED cblog
    /\ UNCHANGED <<baseVars, clientVars, mutexVars, stack, taskVars, envVars,
                   wire, freed, nextBuf, copied, conn, nClose, hookTrace>>

\* _clearWriteQueue, lines 838-844, called at line 751 / 768: take the write
\* mutex, free what the queue owns and drop every entry.
ClearLocked(t) ==
    /\ pc[t] = "td_clear"
    /\ LET s == frame[t].this IN
       /\ CanTakeWrite(s)
       /\ write_mutex' = WriteTaken(t, s)
       /\ freed' = FreeAll(freed, writeQueue[s])
       /\ writeQueue' = [writeQueue EXCEPT ![s] = <<>>]
    /\ Goto(t, "c_give")
    /\ UNCHANGED <<baseVars, conn_state, writeSpaceRemaining, ack_timeout_signaled,
                   rx_last_packet, rx_since_timeout, ack_timeout, connect_addr, cbs,
                   asyncsock_mutex, stack, frame, taskVars, envVars,
                   wire, cblog, nextBuf, copied, conn, nClose, hookTrace>>

\* Line 845.
ClearGive(t) ==
    /\ pc[t] = "c_give"
    /\ write_mutex' = WriteGiven(frame[t].this)
    /\ Goto(t, "c_fire")
    /\ UNCHANGED <<baseVars, clientVars, asyncsock_mutex, stack, frame, taskVars, envVars,
                   obsVars>>

\* Line 752 / lines 769-770: _error fires _error_cb(err), both fire
\* _discard_cb.
TeardownFire(t) ==
    /\ pc[t] = "c_fire"
    /\ LET s == frame[t].this
           afterErr == IF frame[t].isErr
                       THEN Fired(cblog[s], cbs[s], "error", frame[t].err)
                       ELSE cblog[s] IN
       cblog' = [cblog EXCEPT ![s] = Fired(afterErr, cbs[s], "discard", 0)]
    /\ Goto(t, "td_remove")
    /\ UNCHANGED <<baseVars, clientVars, mutexVars, stack, frame, taskVars, envVars,
                   wire, freed, nextBuf, copied, conn, nClose, hookTrace>>

\* Lines 807-810 of add(), by thread t: take the write mutex, push the entry,
\* take its bytes off the window, reset the latch.
AddLocked(t) ==
    /\ pc[t] = "add_push"
    /\ LET s == frame[t].this
           e == frame[t].entry IN
       /\ CanTakeWrite(s)
       /\ write_mutex' = WriteTaken(t, s)
       /\ writeQueue' = [writeQueue EXCEPT ![s] = Pushed(@, e)]
       /\ writeSpaceRemaining' = [writeSpaceRemaining EXCEPT ![s] = @ - e.length]
       /\ ack_timeout_signaled' = [ack_timeout_signaled EXCEPT ![s] = FALSE]
       /\ frame' = [frame EXCEPT ![t].result = e.length, ![t].entry = <<>>,
                                 ![t].size = 0, ![t].room = 0]
    /\ Goto(t, "a_give")
    /\ UNCHANGED <<baseVars, conn_state, rx_last_packet, rx_since_timeout, ack_timeout,
                   connect_addr, cbs, asyncsock_mutex, stack, taskVars, envVars, obsVars>>

\* Lines 811-813: give the mutex, return will_send.
AddGive(t) ==
    /\ pc[t] = "a_give"
    /\ write_mutex' = WriteGiven(frame[t].this)
    /\ Goto(t, frame[t].ret)
    /\ UNCHANGED <<baseVars, clientVars, asyncsock_mutex, stack, frame, taskVars, envVars,
                   obsVars>>

\* Lines 826-828 of send(), by thread t: take the write mutex, select, and
\* when the descriptor is writable _flushWriteQueue() (on an empty queue
\* through the stale slot in front of it).
SendLocked(t) ==
    /\ pc[t] = "snd_lock"
    /\ LET s == frame[t].this IN
       /\ CanTakeWrite(s)
       /\ write_mutex' = WriteTaken(t, s)
       /\ \/ UNCHANGED <<writeQueue, writeSpaceRemaining, wire, nJunk>>
          \/ /\ socket[s] # -1 /\ writeQueue[s] # <<>>
             /\ \E o \in FlushOutcomes(s) :
                   /\ writeQueue' = [writeQueue EXCEPT ![s] = Flushed(@, o, now)]
                   /\ writeSpaceRemaining' =
                          [writeSpaceRemaining EXCEPT ![s] = @ + FlushBytes(o)]
                   /\ wire' = [wire EXCEPT ![s] = @ \o WireBytes(Head(writeQueue[s]), FlushBytes(o))]
             /\ UNCHANGED nJunk
          \/ /\ socket[s] # -1 /\ writeQueue[s] = <<>>
             /\ nJunk < MaxJunk
             /\ \E r \in 1 .. MaxLen :
                   /\ writeSpaceRemaining' = [writeSpaceRemaining EXCEPT ![s] = @ + r]
                   /\ wire' = [wire EXCEPT ![s] = @ \o StaleBytes(r)]
             /\ nJunk' = nJunk + 1
             /\ UNCHANGED writeQueue
    /\ Goto(t, "s_give")
    /\ UNCHANGED <<baseVars, conn_state, ack_timeout_signaled, rx_last_packet,
                   rx_since_timeout, ack_timeout, connect_addr, cbs, asyncsock_mutex, stack,
                   frame, taskVars, now, openFds, dnsReq, nDns, nClock, nFds,
                   cblog, freed, nextBuf, copied, conn, nClose, hookTrace>>

\* Lines 829-830: give the mutex, return true.
SendGive(t) ==
    /\ pc[t] = "s_give"
    /\ write_mutex' = WriteGiven(frame[t].this)
    /\ frame' = [frame EXCEPT ![t].result = 1]
    /\ Goto(t, frame[t].ret)
    /\ UNCHANGED <<baseVars, clientVars, asyncsock_mutex, stack, taskVars, envVars, obsVars>>

\* The handler that thread t is running calls add(data, MaxLen) on its
\* client, lines 780-805: nothing is queued unless connected() and space();
\* else the entry is built and the call goes on to take the write mutex.
HandlerAdds(t) ==
    /\ pc[t] = "cb_body"
    /\ LET s == frame[t].this IN
       /\ Connected(s) /\ Space(s) # 0
       /\ nextBuf <= MaxAdds
       /\ stack' = [stack EXCEPT ![t] = Nested(t, "cb_body")]
       /\ frame' = [frame EXCEPT ![t] =
              [NoFrame EXCEPT !.this = s, !.ret = "resume", !.size = MaxLen, !.room = Space(s),
                              !.entry = Entry(nextBuf, WillSend(Space(s), MaxLen), FALSE, now)]]
    /\ nextBuf' = nextBuf + 1
    /\ Goto(t, "add_push")
    /\ UNCHANGED <<baseVars, clientVars, mutexVars, taskVars, envVars,
                   wire, cblog, freed, copied, conn, nClose, hookTrace>>

\* The handler that thread t is running calls send() on its client, line 816.
HandlerSends(t) ==
    /\ pc[t] = "cb_body"
    /\ stack' = [stack EXCEPT ![t] = Nested(t, "cb_body")]
    /\ frame' = [frame EXCEPT ![t] = [NoFrame EXCEPT !.this = frame[t].this, !.ret = "resume"]]
    /\ Goto(t, "snd_lock")
    /\ UNCHANGED <<baseVars, clientVars, mutexVars, taskVars, envVars, obsVars>>

\* Idle connections on a board that has been up for a while: clients made
\* around accepted descriptors and clients that connect by address, with an
\* RX timeout, while the clock advances by the poll interval.
NextIdle ==
    \/ CtorBase(BOOLEAN) \/ CtorClient
    \/ UserCall({"connect"}) \/ SetRxTimeout
    \/ TickAsleep({PollInterval})
    \/ TaskCollect \/ TaskReadableCollect \/ TaskDnsCollect \/ TaskDelay
    \/ TaskPollCollect \/ TaskPollEnd
    \/ WritableConnecting \/ WritableFlush \/ Readable
    \/ PollEnter \/ PollCheck
    \/ Teardown("task") \/ Connect("user")

\* ------------------------------------------------------------ specification
\* Everything the application, the service task and the resolver can do.
Next ==
    \/ CtorBase(BOOLEAN) \/ CtorClient
    \/ UserCall(DOMAIN EntryLabel) \/ SetCallbacks \/ SetAckTimeout(AckTimeouts) \/ SetRxTimeout
    \/ CloseCheck("user") \/ AbortCheck \/ AbortReturn
    \/ AddCheck(1 .. MaxLen, BOOLEAN) \/ AddPush \/ SendFlush
    \/ WriteAdd \/ WriteSend \/ WriteReturn
    \/ ConnectHost \/ DnsFound \/ DnsFlag
    \/ Tick(ClockSteps)
    \/ TaskCollect \/ TaskReadableCollect \/ TaskDnsCollect \/ TaskDelay
    \/ TaskPollCollect \/ TaskPollEnd
    \/ WritableConnecting \/ WritableFlush
    \/ Readable \/ DelayedConnect
    \/ PollEnter \/ PollCheck
    \/ RecvCallback \/ HandlerCloses("task") \/ HandlerReturns("task")
    \/ CloseCheck("task")
    \/ CtorServer \/ OnClient \/ ServerBegin \/ ServerReadable
    \/ Delete \/ DtorClient \/ DtorServer \/ DtorMembers \/ DtorBase
    \/ \E t \in {"task", "user"} : Resume(t)
    \/ \E t \in {"task", "user"} : Teardown(t) \/ Connect(t)

\* Writing on one accepted connection, with less than 125 ms going by.
NextWrite ==
    \/ CtorBase({TRUE}) \/ CtorClient
    \/ UserCall({"add", "send"}) \/ SetCallbacks
    \/ AddCheck(1 .. MaxLen, BOOLEAN) \/ AddPush \/ SendFlush
    \/ TaskCollect \/ TaskReadableCollect \/ TaskDnsCollect \/ TaskDelay
    \/ TaskPollCollect \/ TaskPollEnd
    \/ WritableFlush \/ Readable
    \/ Teardown("task")

\* The life of one client: construction, connects, closes and aborts while
\* the clock advances, with nothing queued for writing and no hostnames.
NextLife ==
    \/ CtorBase(BOOLEAN) \/ CtorClient
    \/ UserCall({"connect", "close", "abort"}) \/ SetCallbacks \/ SetRxTimeout
    \/ CloseCheck("user") \/ AbortCheck \/ AbortReturn
    \/ TickAsleep({1000})
    \/ TaskCollect \/ TaskReadableCollect \/ TaskDnsCollect \/ TaskDelay
    \/ TaskPollCollect \/ TaskPollEnd
    \/ WritableConnecting \/ WritableFlush \/ Readable
    \/ PollEnter \/ PollCheck
    \/ \E t \in {"task", "user"} : Teardown(t) \/ Connect(t)

\* Connects by address and by hostname, closes, aborts and RX timeouts, with
\* no callback registered.
NextDns ==
    \/ CtorBase(BOOLEAN) \/ CtorClient
    \/ UserCall({"connect", "connect_host", "close", "abort"}) \/ SetRxTimeout
    \/ CloseCheck("user") \/ AbortCheck \/ AbortReturn
    \/ ConnectHost \/ DnsFound \/ DnsFlag
    \/ TickAsleep({1000})
    \/ TaskCollect \/ TaskReadableCollect \/ TaskDnsCollect \/ TaskDelay
    \/ TaskPollCollect \/ TaskPollEnd
    \/ WritableConnecting \/ WritableFlush \/ Readable \/ DelayedConnect
    \/ PollEnter \/ PollCheck
    \/ \E t \in {"task", "user"} : Teardown(t) \/ Connect(t)

\* The ack timeout: buffers that stall at the head of the queue of one
\* accepted connection while the clock advances.
NextAck ==
    \/ CtorBase({TRUE}) \/ CtorClient
    \/ UserCall({"add"}) \/ SetCallbacks \/ SetAckTimeout({PollInterval})
    \/ AddCheck({MaxLen}, {FALSE}) \/ AddPush
    \/ TickAsleep({PollInterval})
    \/ TaskCollect \/ TaskReadableCollect \/ TaskDnsCollect \/ TaskDelay
    \/ TaskPollCollect \/ TaskPollEnd
    \/ WritableFlush \/ Readable
    \/ PollEnter \/ PollCheck
    \/ Teardown("task")

\* The default ack timeout on a client that is closed by its peer and
\* connected again, each add() asking for the whole window.
NextReuse ==
    \/ CtorBase({TRUE}) \/ CtorClient
    \/ UserCall({"add", "connect"}) \/ SetCallbacks
    \/ AddCheck({SndBuf}, {FALSE}) \/ AddPush
    \/ TickAsleep({ASYNC_MAX_ACK_TIME})
    \/ TaskCollect \/ TaskReadableCollect \/ TaskDnsCollect \/ TaskDelay
    \/ TaskPollCollect \/ TaskPollEnd
    \/ WritableConnecting \/ WritableFlush \/ Readable
    \/ PollEnter \/ PollCheck
    \/ Teardown("task") \/ Connect("user")

\* The order of dispatch within a tick: every managed socket is a client the
\* application has constructed, around an accepted descriptor or without one,
\* and has or has not called connect(host, port) on, with the resolver's
\* answer (an address, or none) already delivered.
InitTick ==
    /\ registry = [i \in Socks |-> i]
    /\ kind = [s \in Socks |-> "client"]
    /\ socket \in [Socks -> Fds \cup {-1}]
    /\ \A s \in Socks : socket[s] \in {-1, s - 1}
    /\ selected = [s \in Socks |-> FALSE]
    /\ isdnsfinished \in [Socks -> BOOLEAN]
    /\ sock_lastactivity = [s \in Socks |-> 0]
    /\ conn_state = [s \in Socks |-> IF socket[s] = -1 THEN 0 ELSE 4]
    /\ writeQueue = [s \in Socks |-> <<>>]
    /\ writeSpaceRemaining = [s \in Socks |-> SndBuf]
    /\ ack_timeout_signaled = [s \in Socks |-> FALSE]
    /\ rx_last_packet = [s \in Socks |-> 0]
    /\ rx_since_timeout = [s \in Socks |-> 0]
    /\ ack_timeout = [s \in Socks |-> ASYNC_MAX_ACK_TIME]
    /\ connect_addr \in [Socks -> {0, 1}]
    /\ \A s \in Socks : connect_addr[s] # 0 => isdnsfinished[s]
    /\ cbs = [s \in Socks |-> {}]
    /\ asyncsock_mutex = [owner |-> NoThread, count |-> 0]
    /\ write_mutex = [s \in Socks |-> NoThread]
    /\ pc = [t \in Threads |-> IF t = "task" THEN "loop" ELSE "idle"]
    /\ frame = [t \in Threads |-> NoFrame]
    /\ stack = [t \in Threads |-> <<>>]
    /\ sockList = <<>>
    /\ sockSet_r = {}
    /\ nActive = 0
    /\ t1 = 0
    /\ t2 = 0
    /\ now = 0
    /\ openFds = [fd \in Fds |-> IF \E s \in Socks : socket[s] = fd THEN fd + 1 ELSE 0]
    /\ dnsReq = [s \in Socks |-> FALSE]
    /\ nClock = 0
    /\ nFds = Cardinality({s \in Socks : socket[s] # -1})
    /\ nJunk = 0
    /\ nDns = 0
    /\ wire = [s \in Socks |-> <<>>]
    /\ cblog = [s \in Socks |-> <<>>]
    /\ freed = [b \in BufIds |-> 0]
    /\ nextBuf = 1
    /\ copied = {}
    /\ conn = [s \in Socks |-> IF socket[s] = -1 THEN 0 ELSE socket[s] + 1]
    /\ nClose = [k \in Conns |-> 0]
    /\ hookTrace = <<>>

NextTick ==
    \/ TickAsleep({PollInterval})
    \/ TaskCollect \/ TaskReadableCollect \/ TaskDnsCollect \/ TaskDelay
    \/ TaskPollCollect \/ TaskPollEnd
    \/ WritableConnecting \/ WritableFlush \/ Readable \/ DelayedConnect
    \/ PollEnter \/ PollCheck
    \/ Teardown("task") \/ Connect("task")

\* One accepted connection whose on_data handler may call close() on it.
NextCallback ==
    \/ CtorBase({TRUE}) \/ CtorClient \/ SetCallbacks
    \/ TaskCollect \/ TaskReadableCollect \/ TaskDnsCollect \/ TaskDelay
    \/ TaskPollCollect \/ TaskPollEnd
    \/ WritableFlush \/ Readable \/ RecvCallback
    \/ HandlerCloses("task") \/ HandlerReturns("task") \/ Resume("task")
    \/ CloseCheck("task") \/ Teardown("task")

\* Connections that fail: a client, accepted or connecting by address, whose
\* connect, write or read meets an error, with callbacks registered.
NextError ==
    \/ CtorBase(BOOLEAN) \/ CtorClient
    \/ UserCall({"add", "connect"}) \/ SetCallbacks
    \/ AddCheck({MaxLen}, {TRUE}) \/ AddPush
    \/ TaskCollect \/ TaskReadableCollect \/ TaskDnsCollect \/ TaskDelay
    \/ TaskPollCollect \/ TaskPollEnd
    \/ WritableConnecting \/ WritableFlush \/ Readable
    \/ Teardown("task") \/ Connect("user")

\* Connects by hostname only, with callbacks registered: the resolver
\* answers at once or later, with an address or without one.
NextResolve ==
    \/ CtorBase({FALSE}) \/ CtorClient
    \/ UserCall({"connect_host"}) \/ SetCallbacks
    \/ ConnectHost \/ DnsFound \/ DnsFlag
    \/ TaskCollect \/ TaskReadableCollect \/ TaskDnsCollect \/ TaskDelay
    \/ TaskPollCollect \/ TaskPollEnd
    \/ WritableConnecting \/ WritableFlush \/ Readable \/ DelayedConnect
    \/ Teardown("task")
    \/ \E t \in {"task", "user"} : Connect(t)

\* add() and write() on one client, connected or not, while the service
\* task drains its queue.
NextAdd ==
    \/ CtorBase(BOOLEAN) \/ CtorClient
    \/ UserCall({"add", "write"})
    \/ AddCheck(1 .. MaxLen, BOOLEAN) \/ AddPush \/ SendFlush
    \/ WriteAdd \/ WriteSend \/ WriteReturn
    \/ TaskCollect \/ TaskReadableCollect \/ TaskDnsCollect \/ TaskDelay
    \/ TaskPollCollect \/ TaskPollEnd
    \/ WritableFlush \/ Readable
    \/ Teardown("task")

\* One accepted connection on which every add() or write() asks for more
\* than the whole window, in COPY mode, and the peer takes the bytes piecemeal.
NextPartial ==
    \/ CtorBase({TRUE}) \/ CtorClient \/ SetCallbacks
    \/ UserCall({"add", "write"})
    \/ AddCheck({SndBuf + 1}, {TRUE}) \/ AddPush \/ SendFlush
    \/ WriteAdd \/ WriteSend \/ WriteReturn
    \/ TaskCollect \/ TaskReadableCollect \/ TaskDnsCollect \/ TaskDelay
    \/ TaskPollCollect \/ TaskPollEnd
    \/ WritableFlush \/ Readable
    \/ Teardown("task")

\* The RX timeout: one accepted connection with an RX timeout of a second,
\* on which the application writes while the clock advances by half seconds.
NextRx ==
    \/ CtorBase({TRUE}) \/ CtorClient
    \/ UserCall({"add"}) \/ SetRxTimeout
    \/ AddCheck({MaxLen}, {FALSE}) \/ AddPush
    \/ TickAsleep({500})
    \/ TaskCollect \/ TaskReadableCollect \/ TaskDnsCollect \/ TaskDelay
    \/ TaskPollCollect \/ TaskPollEnd
    \/ WritableFlush \/ Readable
    \/ PollEnter \/ PollCheck
    \/ Teardown("task")

\* The registry: clients and servers the application constructs and deletes,
\* and clients the servers accept, with no traffic on the connections.
NextRegistry ==
    \/ CtorBase(BOOLEAN) \/ CtorClient
    \/ CtorServer \/ OnClient \/ ServerBegin \/ ServerReadable
    \/ Delete \/ DtorClient \/ DtorServer \/ DtorMembers \/ DtorBase
    \/ Resume("user") \/ Teardown("user")
    \/ TaskCollect \/ TaskReadableCollect \/ TaskDnsCollect \/ TaskDelay
    \/ TaskPollCollect \/ TaskPollEnd
    \/ WritableConnecting \/ WritableFlush \/ Readable
    \/ Teardown("task")

\* The write mutex step by step: one accepted client, the application's
\* add, the clock, the service task with its writable, readable and poll
\* hooks, and handlers of on_ack, on_timeout and on_poll that call close,
\* add and send.
NextLocks ==
    \/ CtorBase({TRUE}) \/ CtorClient \/ SetCallbacks
    \/ UserCall({"add"})
    \/ AddCheck({MaxLen}, {FALSE})
    \/ TickAsleep({ASYNC_MAX_ACK_TIME})
    \/ TaskCollect \/ TaskReadableCollect \/ TaskDnsCollect \/ TaskDelay
    \/ TaskPollCollect \/ TaskPollEnd
    \/ WritableLocked \/ WritableGive \/ WritableFire
    \/ Readable
    \/ PollEnter \/ PollLocked \/ PollGive \/ PollFire
    \/ HandlerCloses("task") \/ HandlerAdds("task") \/ HandlerSends("task")
    \/ HandlerReturns("task") \/ Resume("task")
    \/ CloseCheck("task")
    \/ TeardownLock("task") \/ TeardownClose("task")
    \/ ClearLocked("task") \/ ClearGive("task") \/ TeardownFire("task")
    \/ RemoveAllCallbacks("task")
    \/ SendLocked("task") \/ SendGive("task")
    \/ \E t \in {"task", "user"} : AddLocked(t) \/ AddGive(t)

\* The order of the mutexes: one accepted client, the application's write
\* (add, then send), close, abort and connect(host), the resolver's callback
\* and the service task, with the write mutex held step by step.
NextOrder ==
    \/ CtorBase({TRUE}) \/ CtorClient
    \/ UserCall({"write", "close", "abort", "connect_host"})
    \/ AddCheck({MaxLen}, {FALSE}) \/ WriteAdd \/ WriteSend \/ WriteReturn
    \/ AbortCheck \/ AbortReturn
    \/ ConnectHost \/ DnsFound \/ DnsFlag
    \/ TaskCollect \/ TaskReadableCollect \/ TaskDnsCollect \/ TaskDelay
    \/ TaskPollCollect \/ TaskPollEnd
    \/ WritableConnecting \/ WritableLocked \/ WritableGive \/ WritableFire
    \/ Readable \/ DelayedConnect
    \/ \E t \in {"task", "user"} :
          \/ CloseCheck(t) \/ Connect(t)
          \/ TeardownLock(t) \/ TeardownClose(t)
          \/ ClearLocked(t) \/ ClearGive(t) \/ TeardownFire(t)
          \/ RemoveAllCallbacks(t)
    \/ AddLocked("user") \/ AddGive("user") \/ SendLocked("user") \/ SendGive("user")

\* Progress of the write queue: one accepted client, add() by the application
\* and the service task.
NextLive ==
    \/ CtorBase({TRUE}) \/ CtorClient \/ SetCallbacks
    \/ UserCall({"add"}) \/ AddCheck({MaxLen}, {FALSE}) \/ AddPush
    \/ TaskCollect \/ TaskReadableCollect \/ TaskDnsCollect \/ TaskDelay
    \/ TaskPollCollect \/ TaskPollEnd
    \/ WritableFlush \/ Readable
    \/ Teardown("task")

\* The steps of the service task, an endless loop (lines 86-215).
TaskStep ==
    \/ TaskCollect \/ TaskReadableCollect \/ TaskDnsCollect \/ TaskDelay
    \/ TaskPollCollect \/ TaskPollEnd
    \/ WritableFlush \/ Readable
    \/ Teardown("task")

\* A writable hook whose lwip_write takes at least one byte or fails, or
\* which retires the head buffer: anything but EAGAIN.
WritableProgress ==
    WritableFlush /\ (writeQueue' # writeQueue \/ pc'["task"] = "td_lock")

\* The steps of the service task where clients connect: the loop, the four
\* hooks, and the connect and the teardowns the hooks call.
ServiceStep ==
    \/ TaskStep
    \/ WritableConnecting \/ DelayedConnect
    \/ PollEnter \/ PollCheck
    \/ Connect("task")

\* select() reports the descriptor of a connect in progress writable: the
\* network has the result of the connect.
ConnectResult ==
    /\ TaskCollect
    /\ pc'["task"] = "wr_next"
    /\ \E s \in Socks :
        /\ conn_state[s] = 2 /\ socket[s] # -1
        /\ \E i \in 1 .. Len(sockList') : sockList'[i] = s

\* Hostname connects of one client with its callbacks, for as long as one
\* likes: the resolver answers at once or later, with an address or without
\* one, and time passes while the service task sleeps.
NextHost ==
    \/ NextResolve
    \/ PollEnter \/ PollCheck
    \/ Elapse(PollInterval)

\* Destruction by a handler: one accepted client with its callbacks, close()
\* by the application, the service task, and a handler of on_disconnect that
\* deletes the client.
NextDestroy ==
    \/ CtorBase({TRUE}) \/ CtorClient \/ SetCallbacks
    \/ UserCall({"close"}) \/ CloseCheck("user")
    \/ TaskCollect \/ TaskReadableCollect \/ TaskDnsCollect \/ TaskDelay
    \/ TaskPollCollect \/ TaskPollEnd
    \/ WritableFlush \/ Readable
    \/ \E t \in {"task", "user"} : Teardown(t) \/ HandlerDeletes(t)

Spec == Init /\ [][Next]_vars
SpecWrite == Init /\ [][NextWrite]_vars
SpecLife == Init /\ [][NextLife]_vars
SpecDns == Init /\ [][NextDns]_vars
SpecAck == Init /\ [][NextAck]_vars
SpecReuse == Init /\ [][NextReuse]_vars
SpecTick == InitTick /\ [][NextTick]_vars
SpecCallback == Init /\ [][NextCallback]_vars
SpecError == Init /\ [][NextError]_vars
SpecResolve == Init /\ [][NextResolve]_vars
SpecAdd == Init /\ [][NextAdd]_vars
SpecPartial == Init /\ [][NextPartial]_vars
SpecRx == Init /\ [][NextRx]_vars
SpecRegistry == Init /\ [][NextRegistry]_vars
SpecLocks == Init /\ [][NextLocks]_vars
SpecOrder == Init /\ [][NextOrder]_vars
SpecDestroy == Init /\ [][NextDestroy]_vars
SpecIdle == InitUp /\ [][NextIdle]_vars
\* Hostname connects with the resolver calling back, the service task
\* running, time passing, the network reporting the result of every connect
\* and every waiter for the registry mutex served in the end.
SpecHost ==
    /\ InitUp /\ [][NextHost]_vars
    /\ WF_vars(ServiceStep)
    /\ WF_vars(Elapse(PollInterval))
    /\ SF_vars(ConnectResult)
    /\ SF_vars(DnsFound \/ DnsFlag)
    /\ SF_vars(Connect("user") \/ ConnectHost)
\* The service task keeps running, and a write on a descriptor that is
\* reported writable again and again does not answer EAGAIN for ever.
SpecLive == Init /\ [][NextLive]_vars /\ WF_vars(TaskStep) /\ SF_vars(WritableProgress)

\* ------------------------------------------------------ properties: writing
\* The bytes of queued buffers on the wire of client s, stale bytes left out.
QueuedBytes(s) == SelectSeq(wire[s], LAMBDA b : b[1] # 0)

\* The buffers on_ack has fired for on client s, in order.
Acked(s) == LET isSent(e) == e[1] = "sent"
                sent == SelectSeq(cblog[s], isSent) IN
            [i \in 1 .. Len(sent) |-> sent[i][2]]

\* Every byte of buffer b is on the wire of client s.
AllWritten(s, b) == \E i \in 1 .. Len(wire[s]) : wire[s][i][1] = b /\ wire[s][i][2] = wire[s][i][3]

\* The wire carries each buffer from its first byte to its last, one after
\* the other, and a buffer only after the one added before it is complete.
WireInOrder(s) ==
    LET w == QueuedBytes(s) IN
    /\ w # <<>> => w[1][2] = 1
    /\ \A i \in 1 .. Len(w) - 1 :
         \/ w[i + 1][1] = w[i][1] /\ w[i + 1][2] = w[i][2] + 1
         \/ w[i][2] = w[i][3] /\ w[i + 1][1] > w[i][1] /\ w[i + 1][2] = 1

\* The queue holds the buffers in the order they were added; only its head
\* has bytes on the wire, as many as its written count says, and no buffer
\* added after a queued one has any.
QueueBehindWire(s) ==
    LET q == writeQueue[s]
        w == QueuedBytes(s) IN
    /\ \A i \in 1 .. Len(q) - 1 : q[i].data < q[i + 1].data
    /\ \A i \in 1 .. Len(q), k \in 1 .. Len(w) :
         /\ w[k][1] <= q[i].data
         /\ w[k][1] = q[i].data => i = 1 /\ w[k][2] <= q[i].written

\* on_ack fires in the order the buffers were added, once for a buffer, and
\* only for a buffer whose bytes are all on the wire.
AcksInOrder(s) ==
    LET a == Acked(s) IN
    /\ \A i \in 1 .. Len(a) - 1 : a[i] < a[i + 1]
    /\ \A i \in 1 .. Len(a) : AllWritten(s, a[i])

\* A writable hook that takes the head buffer off the queue fires on_ack for
\* it (when the application has registered one).
RetireAcks ==
    \A s \in Socks :
        (/\ pc["task"] = "wr_next"
         /\ Len(writeQueue'[s]) < Len(writeQueue[s])
         /\ "sent" \in cbs[s])
        => cblog'[s] = Append(cblog[s], <<"sent", Head(writeQueue[s]).data>>)

\* C1: for one connection the bytes accepted by successive add() calls are
\* written to the socket in submission order (no byte of a later buffer before
\* every byte of each earlier one), and on_ack fires once per retired buffer
\* in the order the buffers were added, however add() and send() on the
\* application thread interleave with the writable hooks of the service task.
C1_WriteOrdering ==
    /\ [](\A s \in Socks : WireInOrder(s) /\ QueueBehindWire(s) /\ AcksInOrder(s))
    /\ [][RetireAcks]_vars

\* Two buffers went out whole, the second one in two writes, and on_ack has
\* fired for both.
C1_Witness ==
    \E s \in Socks :
        /\ Acked(s) = <<1, 2>>
        /\ \E i \in 1 .. Len(wire[s]) : wire[s][i] = <<2, 1, 2>>
        /\ AllWritten(s, 1) /\ AllWritten(s, 2)

\* ----------------------------------------------------- properties: lifecycle
\* C2: in every state with the registry mutex free, every client has
\* descriptor -1 exactly when its connection state is CLOSED (0): after
\* construction with or without an accepted descriptor, connect(ip, port), a
\* failed connect, the deferred connect after DNS, and every teardown.
C2_DescriptorStateCoherence ==
    asyncsock_mutex.owner = NoThread =>
        \A s \in Socks : kind[s] = "client" => (socket[s] = -1 <=> conn_state[s] = 0)

\* The service task sleeps with the mutex free after the deferred connect of
\* a client whose earlier connection was torn down: a descriptor, CONNECTING.
C2_Witness ==
    /\ asyncsock_mutex.owner = NoThread
    /\ pc["task"] = "delay"
    /\ \E s \in Socks :
        /\ \E i \in 1 .. Len(hookTrace) : hookTrace[i] = <<"delayed", s>>
        /\ socket[s] # -1 /\ conn_state[s] = 2
        /\ conn[s] = 2 /\ nClose[1] = 1

\* Bytes queued on q and not yet written.
RECURSIVE Pending(_)
Pending(q) == IF q = <<>> THEN 0 ELSE Head(q).length - Head(q).written + Pending(Tail(q))

\* C3: on an ESTABLISHED client, after any sequence of add() calls and flushes
\* (by the writable hook or by send()), _writeSpaceRemaining is the initial
\* window less the bytes queued and not yet written, so never below 0 nor
\* above the initial window.
C3_SpaceAccounting ==
    \A s \in Socks :
        kind[s] = "client" /\ Connected(s) =>
            /\ writeSpaceRemaining[s] = SndBuf - Pending(writeQueue[s])
            /\ writeSpaceRemaining[s] >= 0
            /\ writeSpaceRemaining[s] <= SndBuf

\* Buffer b is in a write queue / is in the hands of an add() not yet done.
Queued(b) == \E s \in Socks : \E i \in 1 .. Len(writeQueue[s]) : writeQueue[s][i].data = b
InHand(b) == frame["user"].entry # <<>> /\ frame["user"].entry.data = b

\* No teardown of client s and no add() on it is under way.
Settled(s) ==
    /\ \A t \in Threads : pc[t] \in {"td_lock", "td_close", "td_clear", "td_remove"} => frame[t].this # s
    /\ pc["user"] \in {"add_check", "add_push"} => frame["user"].this # s

\* No buffer is freed twice, none while it is queued, none that add() did not
\* copy, and a copied one that has left the queue has been freed.
FreedAsOwned ==
    \A b \in BufIds :
        /\ freed[b] <= 1
        /\ b \notin copied => freed[b] = 0
        /\ Queued(b) \/ InHand(b) => freed[b] = 0
        /\ b \in copied /\ b < nextBuf /\ ~Queued(b) /\ ~InHand(b) => freed[b] = 1

\* The teardown of a client leaves no copied buffer behind in its queue.
NoCopyLeftBehind ==
    \A s \in Socks :
        kind[s] = "client" /\ socket[s] = -1 /\ conn_state[s] = 0 /\ Settled(s) =>
            \A i \in 1 .. Len(writeQueue[s]) : writeQueue[s][i].data \notin copied

\* C4: every buffer enqueued with the COPY flag is freed by the engine exactly
\* once, when it is retired after draining or when a teardown clears the queue,
\* never twice and never zero times; a buffer enqueued without COPY is never
\* freed by the engine; over every sequence of add, flush, retire and teardown.
C4_FreedExactlyOnce == FreedAsOwned /\ NoCopyLeftBehind

\* The service task is in the teardown that a read of 0 bytes started.
PeerClosed == pc["task"] \in {"td_lock", "td_close", "td_clear", "td_remove"}
              /\ frame["task"].cause = "eof"

\* What that teardown does, step by step: closing the descriptor leaves the
\* client CLOSED without one; the callbacks fired are on_disconnect when the
\* application has registered it, and nothing else.
PeerCloseStep ==
    PeerClosed /\ pc'["task"] # pc["task"] =>
        LET s == frame["task"].this IN
        /\ pc["task"] = "td_close" => socket'[s] = -1 /\ conn_state'[s] = 0
        /\ pc["task"] = "td_clear" =>
               cblog'[s] = IF "discard" \in cbs[s]
                           THEN Append(cblog[s], <<"discard", 0>>)
                           ELSE cblog[s]
        /\ pc["task"] # "td_clear" => cblog'[s] = cblog[s]

\* C5: when the readable hook's read returns 0 the client goes through the
\* close teardown: on_disconnect fires, on_error does not fire for that
\* connection, and the client ends CLOSED with descriptor -1.
C5_PeerCloseIsNotAnError ==
    /\ [][PeerCloseStep]_vars
    /\ [](PeerClosed /\ pc["task"] = "td_remove" =>
            \A i \in 1 .. Len(cblog[frame["task"].this]) :
                cblog[frame["task"].this][i][1] # "error")

\* The teardown after a read of 0 bytes has fired on_disconnect on a client
\* that had connected by address and is CLOSED now.
C5_Witness ==
    /\ PeerClosed /\ pc["task"] = "td_remove"
    /\ LET s == frame["task"].this IN
       /\ socket[s] = -1 /\ conn_state[s] = 0
       /\ cblog[s] = <<<<"connect", 0>>, <<"discard", 0>>>>

\* ---------------------------------------------------- properties: ack timeout
\* What on_timeout has seen on client s: the two ends of the queue at each
\* invocation.  Two equal entries are two invocations on one head buffer with
\* no buffer retired and none added in between.
TimedOutQueues(s) == LET isTimeout(e) == e[1] = "timeout"
                         fired == SelectSeq(cblog[s], isTimeout) IN
                     [i \in 1 .. Len(fired) |-> fired[i][2]]

\* C6: for a stalled head buffer, across any number of idle polls, on_timeout
\* fires at most once until the head buffer changes: between two on_timeout
\* invocations on the same client either the head buffer was retired or a new
\* add() reset the ack_timeout_signaled latch.
C6_TimeoutAtMostOnce ==
    \A s \in Socks :
        \A i, j \in 1 .. Len(TimedOutQueues(s)) :
            i < j => TimedOutQueues(s)[i] # TimedOutQueues(s)[j]

\* The head buffers on_timeout has fired for on client s, in order.
TimedOutHeads(s) == LET isTimeout(e) == e[1] = "timeout"
                        fired == SelectSeq(cblog[s], isTimeout) IN
                    [i \in 1 .. Len(fired) |-> fired[i][2][1]]

\* on_timeout invocations on client s for head buffer b.
Timeouts(s, b) == Cardinality({i \in 1 .. Len(TimedOutHeads(s)) : TimedOutHeads(s)[i] = b})

\* The idle-poll hook of client s is about to test, with on_timeout
\* registered, a head buffer that has been queued for the ack timeout or more.
PollsStaleHead(s) ==
    /\ pc["task"] = "p_lock" /\ frame["task"].this = s
    /\ "timeout" \in cbs[s]
    /\ writeQueue[s] # <<>> /\ ack_timeout[s] # 0
    /\ ElapsedAtLeast(frame["task"].t, Head(writeQueue[s]).queued_at, ack_timeout[s])

\* C7: the ack timeout fires on_timeout exactly once per head buffer: with
\* the ack timeout above 0 and idle polls going on, every buffer that becomes
\* the head of the write queue and stays un-retired for the ack timeout since
\* it was queued gets one on_timeout (also a buffer that becomes head after an
\* earlier head timed out and retired), and no head buffer gets more than one.
C7_TimeoutOncePerHead ==
    \A s \in Socks :
        /\ \A b \in BufIds : Timeouts(s, b) <= 1
        /\ PollsStaleHead(s) =>
             LET b == Head(writeQueue[s]).data IN
             /\ Timeouts(s, b) = 1 => ack_timeout_signaled[s]
             /\ Timeouts(s, b) = 0 /\ TimedOutHeads(s) # <<>> => ~ack_timeout_signaled[s]

\* --------------------------------------------------- properties: dispatching
\* The place of a hook kind in a tick.
Rank(h) == CASE h = "writable" -> 1 [] h = "readable" -> 2 [] h = "delayed" -> 3 [] h = "poll" -> 4

\* C8: within one tick of the service loop all writable hooks complete before
\* any readable hook begins, all readable hooks before any delayed-connect
\* hook, and all delayed-connect hooks before any idle-poll hook (so for a
\* socket ready for both, writable comes before readable), and each hook kind
\* runs at most once per socket per tick.
C8_DispatchOrder ==
    /\ \A i, j \in 1 .. Len(hookTrace) :
         i < j => Rank(hookTrace[i][1]) <= Rank(hookTrace[j][1]) /\ hookTrace[i] # hookTrace[j]
    /\ pc["task"] \in {"td_lock", "td_close", "td_clear", "td_remove",
                       "cn_check", "cn_lock", "cn_set", "p_lock"}
          => hookTrace # <<>> /\ hookTrace[Len(hookTrace)][2] = frame["task"].this

\* One tick has run all four hooks of one socket and a hook of another.
C8_Witness ==
    \E s \in Socks :
        /\ \A h \in {"writable", "readable", "delayed", "poll"} :
             \E i \in 1 .. Len(hookTrace) : hookTrace[i] = <<h, s>>
        /\ \E i \in 1 .. Len(hookTrace) : hookTrace[i][2] # s

\* --------------------------------------------- properties: close and abort
\* on_disconnect invocations on the current connection of client s.
Discards(s) == LET isDiscard(e) == e[1] = "discard" IN Len(SelectSeq(cblog[s], isDiscard))

\* Each connection has its descriptor closed once: never twice, and once when
\* its client has let go of it.
ClosedOnce ==
    /\ \A k \in Conns : nClose[k] <= 1
    /\ \A s \in Socks : kind[s] = "client" /\ socket[s] = -1 /\ conn[s] # 0 => nClose[conn[s]] = 1

\* When the application's close() or abort() has torn a connection down,
\* on_disconnect has fired no more than once for it, and once if it is still
\* registered.
DiscardedOnce ==
    pc["user"] = "td_remove" =>
        LET s == frame["user"].this IN
        /\ Discards(s) <= 1
        /\ "discard" \in cbs[s] => Discards(s) = 1

\* C9: close() or abort() from the application thread at any moment, also
\* while the service task tears the same client down on peer close, error or
\* RX timeout, tears the connection down safely: for each connection the
\* descriptor is closed exactly once and on_disconnect fires exactly once.
C9_SafeTeardown == ClosedOnce /\ DiscardedOnce

\* close() ends its teardown of a connection that the service task has torn
\* down meanwhile: one lwip_close on its descriptor, one on_disconnect, fired
\* by the task, which has emptied the callback slots.
C9_Witness ==
    /\ pc["user"] = "td_remove" /\ frame["user"].cause = "close"
    /\ LET s == frame["user"].this IN
       /\ cbs[s] = {} /\ Discards(s) = 1
       /\ conn[s] # 0 /\ nClose[conn[s]] = 1

\* close() or abort() on a client without a descriptor: the call returns
\* (abort() with ERR_ABRT) and nothing of the client, of the sockets layer or
\* of what its callbacks have seen changes.
CloseOnClosed ==
    (/\ pc["user"] \in {"cl_check", "ab_check"}
     /\ socket[frame["user"].this] = -1
     /\ pc'["user"] # pc["user"])
    => /\ pc'["user"] = "idle"
       /\ UNCHANGED <<baseVars, clientVars, openFds, wire, cblog, freed, conn, nClose>>
       /\ pc["user"] = "ab_check" => frame'["user"].result = Lwip.ERR_ABRT

\* C10: close() is idempotent: on a client that is already CLOSED (descriptor
\* -1) it changes no state and fires no callback, so close(); close() ends as
\* a single close() does, with on_disconnect fired once; abort() on a closed
\* client likewise only returns ERR_ABRT.
C10_CloseIdempotent == [][CloseOnClosed]_vars

\* abort() has returned ERR_ABRT on a client whose connection had been closed
\* before, with on_disconnect fired for it once.
C10_Witness ==
    /\ pc["user"] = "idle" /\ frame["user"].result = Lwip.ERR_ABRT
    /\ \E s \in Socks :
        /\ frame["user"].this = s
        /\ socket[s] = -1 /\ conn_state[s] = 0
        /\ conn[s] # 0 /\ nClose[conn[s]] = 1 /\ Discards(s) = 1

\* ------------------------------------------ properties: callback discipline
\* Thread t is inside a handler of client s: running it, or in a call the
\* handler has made.
InHandler(t, s) ==
    \/ pc[t] = "cb_body" /\ frame[t].this = s
    \/ \E i \in 1 .. Len(stack[t]) :
          stack[t][i].pc = "cb_body" /\ stack[t][i].frame.this = s

\* A callback of client s begins in this step: one is logged as fired, or a
\* thread enters a handler of s.
CallbackBegins(s) ==
    \/ Len(cblog'[s]) > Len(cblog[s])
    \/ \E t \in Threads : ~InHandler(t, s) /\ InHandler(t, s)'

\* C11: callbacks of one client are serialised: no callback of a client
\* begins while a handler of that client is still running on any thread, a
\* handler that calls close() on its client included.
C11_CallbacksSerialised ==
    [][\A s \in Socks : CallbackBegins(s) => \A t \in Threads : ~InHandler(t, s)]_vars

\* ---------------------------------------------- properties: error teardown
\* What a hook met when it went on to _error.
ErrorCauses == {"connect failed", "write failed", "read failed"}

\* The callbacks _error(err) is to fire, for the slots cb that hold a function.
ErrorThenDiscard(cb, err) ==
    (IF "error" \in cb THEN <<<<"error", err>>>> ELSE <<>>)
        \o (IF "discard" \in cb THEN <<<<"discard", 0>>>> ELSE <<>>)

\* Thread t, in the teardown a hook began on an error, fires its callbacks in
\* this step.
ErrorTeardownFires(t) ==
    pc[t] = "td_clear" /\ frame[t].cause \in ErrorCauses /\ pc'[t] # "td_clear"

\* Once on_error is logged for a connection the client has no descriptor, and
\* neither on_connect nor on_ack is logged after it.
NothingAfterError ==
    \A s \in Socks : \A i \in 1 .. Len(cblog[s]) :
        cblog[s][i][1] = "error" =>
            /\ socket[s] = -1
            /\ \A j \in i + 1 .. Len(cblog[s]) : cblog[s][j][1] \notin {"connect", "sent"}

\* C12: every error teardown (a failed connect, a write error latched on the
\* head buffer, a read error) fires on_error once and then on_disconnect
\* once, in that order, with the state already CLOSED and the descriptor -1;
\* no on_connect or on_ack fires for that connection afterwards, and there is
\* no descriptor left to read data from.
C12_ErrorTeardown ==
    [][/\ \A t \in Threads :
            ErrorTeardownFires(t) =>
                LET s == frame[t].this IN
                /\ conn_state[s] = 0 /\ socket[s] = -1
                /\ cblog'[s] = cblog[s] \o ErrorThenDiscard(cbs[s], frame[t].err)
       /\ NothingAfterError']_vars

\* A write error has been torn down: on_error and then on_disconnect are the
\* last callbacks logged, and the slots are about to be emptied.
C12_Witness ==
    /\ pc["task"] = "td_remove" /\ frame["task"].cause = "write failed"
    /\ LET log == cblog[frame["task"].this] IN
       /\ Len(log) >= 2
       /\ log[Len(log) - 1][1] = "error" /\ log[Len(log)][1] = "discard"

\* ------------------------------------------- properties: failed resolution
\* A step of the resolver thread.
ResolverStep == pc'["lwip"] # pc["lwip"] \/ frame'["lwip"] # frame["lwip"]

\* The dispatcher calls the delayed-connect hook of client s, whose
\* resolution produced no address.
DnsFailureDispatched(s) ==
    /\ pc["task"] = "dns_next" /\ sockList # <<>> /\ sockList' # sockList
    /\ Head(sockList) = s /\ kind[s] = "client" /\ connect_addr[s] = 0

\* on_error(-55) is logged for client s in this step.
DnsErrorLogged(s) ==
    /\ Len(cblog'[s]) > Len(cblog[s])
    /\ \E i \in Len(cblog[s]) + 1 .. Len(cblog'[s]) : cblog'[s][i] = <<"error", DnsFailed>>

SendRuns == pc["user"] = "snd_lock" /\ pc'["user"] # "snd_lock"

\* C14: send() always returns true, and on a client whose write queue is
\* empty it is a no-op: no state of the client changes and nothing is handed
\* to lwip_write, whether or not the descriptor is writable.
C14_SendOnEmptyIsNoOp ==
    [][SendRuns =>
          /\ frame'["user"].result = 1
          /\ writeQueue[frame["user"].this] = <<>> =>
                UNCHANGED <<baseVars, clientVars, wire>>]_vars

\* ------------------------------------------------ properties: add, write
\* add() on client s refuses in this step: it returns 0 and leaves the
\* queue, the window and the ack-timeout latch alone.
AddRefuses(s) ==
    /\ frame'["user"].result = 0
    /\ UNCHANGED <<writeQueue, writeSpaceRemaining, ack_timeout_signaled>>

\* add() on client s accepts in this step, having read room from space() for
\* a request of size bytes: it returns min(size, room) and the queue has
\* exactly one more buffer, of that length, with nothing written and no errno.
AddAccepts(s, size, room) ==
    LET n == frame'["user"].result
        q == writeQueue'[s] IN
    /\ n = Min(size, room)
    /\ Len(q) = Len(writeQueue[s]) + 1
    /\ SubSeq(q, 1, Len(q) - 1) = writeQueue[s]
    /\ q[Len(q)].length = n /\ q[Len(q)].written = 0 /\ q[Len(q)].write_errno = 0

\* C15: add(data, size, flags) returns min(size, space()) and appends exactly
\* one buffer of that length with written = 0 and write_errno = 0; a client
\* that is not ESTABLISHED or has no room, a NULL or empty request and a
\* failed allocation return 0 and leave the queue, the window and the latch
\* unchanged; write() returns what the add() it performs returned.
C15_AddReturnsWillSend ==
    [][LET s == frame["user"].this
           at(label) == pc["user"] = label /\ pc'["user"] # label IN
       /\ at("add_check") =>
            IF pc'["user"] = "add_push"
            THEN /\ Connected(s) /\ Space(s) # 0
                 /\ frame'["user"].size > 0 /\ frame'["user"].room = Space(s)
                 /\ UNCHANGED <<writeQueue, writeSpaceRemaining, ack_timeout_signaled>>
            ELSE AddRefuses(s)
       /\ at("add_push") =>
            AddAccepts(s, frame["user"].size, frame["user"].room)
       /\ at("wr_send") =>
            IF pc'["user"] = "idle"
            THEN frame["user"].result = 0 /\ frame'["user"].result = 0
            ELSE frame'["user"].will_send = frame["user"].result
       /\ at("wr_ret") => frame'["user"].result = frame["user"].will_send]_vars

\* write() is about to return what its add() returned: the buffer is queued
\* behind an earlier one, and it was cut down to the room that was left.
C15_Witness ==
    /\ pc["user"] = "wr_ret"
    /\ LET q == writeQueue[frame["user"].this] IN
       /\ Len(q) = 2
       /\ q[1].length = MaxLen
       /\ q[2].length = SndBuf - MaxLen /\ q[2].length = frame["user"].will_send

\* ------------------------------------------------ properties: partial writes
\* The bytes of buffer b that client s has put on the wire.
WrittenOf(s, b) == SelectSeq(wire[s], LAMBDA x : x[1] = b)

\* on_ack is logged at most once for each buffer of client s, and only for a
\* buffer all of whose bytes are on the wire.
AckedWhenWritten(s) ==
    /\ \A i, j \in 1 .. Len(Acked(s)) : Acked(s)[i] = Acked(s)[j] => i = j
    /\ \A i \in 1 .. Len(Acked(s)) :
          LET w == WrittenOf(s, Acked(s)[i]) IN
          w # <<>> /\ Len(w) = w[1][3]

\* With nothing queued an ESTABLISHED client has the whole window again.
WindowRestored(s) == Connected(s) /\ writeQueue[s] = <<>> => Space(s) = SndBuf

\* C16: the N bytes handed to one add() or write() call, N above the window,
\* are one buffer of N bytes: it drains through partial writes, on_ack fires
\* once for it, only after its last byte has been written and never while it
\* is partly written, and once the queue is empty again space() is the whole
\* initial window.
C16_SingleAckAfterDrain ==
    [][/\ pc["user"] = "add_push" /\ pc'["user"] # "add_push" =>
            frame'["user"].result = frame["user"].size
       /\ \A s \in Socks : AckedWhenWritten(s)' /\ WindowRestored(s)']_vars

\* --------------------------------------------------- properties: RX timeout
\* The service task runs the readable hook of client s in this step.
ReadableEvent(s) ==
    pc["task"] = "rd_next" /\ sockList # <<>> /\ Head(sockList) = s /\ sockList' # sockList

\* A connection of client s begins in this step: it is constructed, or its
\* connect is found to have succeeded.
ConnectionBegins(s) ==
    \/ pc["user"] = "ctor_client" /\ frame["user"].this = s
    \/ conn_state[s] # 4 /\ conn_state'[s] = 4

\* The idle poll of client s, in which the ack timeout does not fire, ends in
\* this step.
IdlePoll(s) ==
    /\ pc["task"] = "p_lock" /\ pc'["task"] # "p_lock"
    /\ frame["task"].this = s
    /\ ~AckTimedOut(s, frame["task"].t)

\* C17: the RX timeout is measured since the last received byte: the instant
\* it is measured from moves only with a readable event of the connection (or
\* with the connection's beginning), never with outgoing traffic, and an idle
\* poll goes on to close teardown exactly when an RX timeout is set and at
\* least rx_timeout_s * 1000 ms have passed since that instant.
C17_RxTimeoutSinceLastRead ==
    [][\A s \in Socks :
         /\ rx_last_packet'[s] # rx_last_packet[s] => ReadableEvent(s) \/ ConnectionBegins(s)
         /\ IdlePoll(s) =>
               (pc'["task"] = "td_lock" <=>
                   /\ rx_since_timeout[s] # 0
                   /\ frame["task"].t - rx_last_packet[s] >= rx_since_timeout[s] * 1000)]_vars

\* ------------------------------------------------------------ the registry
\* An object is live from its construction until its base destructor has run.
Live(s) == kind[s] \notin {"none", "dead"}

Occurrences(list, s) == Cardinality({i \in 1 .. Len(list) : list[i] = s})

\* C18: whatever clients and servers are created and destroyed, creations by
\* a server's accept on the service task included, every live managed socket
\* is in the registry exactly once, a destroyed one is not in it, and the
\* entries are in the order of their creation (objects are numbered in that
\* order).
C18_RegistryUniqueOrdered ==
    /\ \A s \in Socks : Occurrences(registry, s) = IF Live(s) THEN 1 ELSE 0
    /\ \A i, j \in 1 .. Len(registry) : i < j => registry[i] < registry[j]

\* A server accepted a client on the service task and has been destroyed
\* since: the client is what the registry holds.
C18_Witness ==
    /\ kind[1] = "dead" /\ kind[2] = "client"
    /\ cblog[1] = <<<<"connect", 2>>>>
    /\ registry = <<2>>

\* ------------------------------------------------------------ error codes
\* The values errno takes in the sockets layer.
ErrnoRange == 1 .. 255

ErrorCodes(s) == {cblog[s][i][2] : i \in {j \in 1 .. Len(cblog[s]) : cblog[s][j][1] = "error"}}

\* C19: every code handed to on_error is the errno of the failing sockets
\* call, a positive value, or the code -55 of a failed resolution; no other
\* negative code is delivered.
C19_ErrorCodeIsErrno ==
    \A s \in Socks : \A e \in ErrorCodes(s) : e \in ErrnoRange \/ e = DnsFailed

\* ------------------------------------------------------------ after teardown
\* freeable(), lines 376-381, and free(), lines 848-851.
Freeable(s) == socket[s] = -1 \/ conn_state[s] = 0 \/ conn_state[s] > 4

\* Thread t ends a teardown of client s with this step: _removeAllCallbacks
\* returns to the caller of _close or _error.
TeardownCompletes(t, s) == pc[t] = "td_remove" /\ frame[t].this = s /\ pc'[t] # "td_remove"

\* C20: when a teardown has run to its end (whatever began it: close, abort,
\* an error, the peer's close, the RX timeout), every callback slot of the
\* client is empty, connected() is false and freeable() and free() are true;
\* and as long as the slots stay empty no callback of the client fires (the
\* log of callbacks gets no entry).
C20_AfterTeardown ==
    [][\A s \in Socks :
         /\ (\E t \in Threads : TeardownCompletes(t, s)) =>
                cbs'[s] = {} /\ ~Connected(s)' /\ Freeable(s)'
         /\ cbs[s] = {} /\ cbs'[s] = {} => Len(cblog'[s]) <= Len(cblog[s])]_vars

\* ------------------------------------------------- callbacks and the write mutex
\* Thread t invokes a callback of client s with this step: the log of the
\* client's callbacks gets an entry, or t enters a handler.
Invokes(t, s) ==
    /\ pc'[t] # pc[t]
    /\ \/ Len(cblog'[s]) > Len(cblog[s])
       \/ pc'[t] = "cb_body" /\ pc[t] # "resume" /\ frame'[t].this = s

\* Thread t is inside a handler of a callback of client s, not in a call the
\* handler made.
Handles(t, s) == pc[t] = "cb_body" /\ frame[t].this = s

\* Thread t is at xSemaphoreTake(_write_mutex) of a mutex it holds itself.
WaitsForItself(t) ==
    /\ pc[t] \in {"add_push", "snd_lock", "td_clear", "p_lock"}
    /\ frame[t].this \in Socks
    /\ write_mutex[frame[t].this] = t

\* C21: no callback of a client is invoked, and no handler runs, while the
\* invoking thread holds the client's write mutex: the writable hook, the
\* poll hook and the teardowns have given it before on_ack, on_timeout,
\* on_poll, on_error or on_disconnect fires; so a handler that calls add(),
\* send() or close() on its client never waits for a mutex its own thread
\* holds.
C21_NoCallbackUnderWriteMutex ==
    [][\A t \in Threads :
         /\ \A s \in Socks :
              /\ Invokes(t, s) => write_mutex[s] # t /\ write_mutex'[s] # t
              /\ Handles(t, s)' => write_mutex'[s] # t
         /\ ~WaitsForItself(t)']_vars

\* The handler of on_ack called add() on its client, and the service task
\* holds the write mutex inside that call.
C21_Witness ==
    /\ pc["task"] = "a_give"
    /\ stack["task"] # <<>>
    /\ stack["task"][1].frame.cause = "sent"
    /\ write_mutex[frame["task"].this] = "task"

\* ------------------------------------------------------- order of the mutexes
\* Thread t is at xSemaphoreTakeRecursive(_asyncsock_mutex): its next step
\* takes the registry mutex.
RequestsRegistry(t) ==
    pc[t] \in {"td_lock", "cn_lock", "dns_flag", "loop", "delay", "dtor_base", "ctor_client"}

\* Thread t is at xSemaphoreTake(_write_mutex) of client s.
RequestsWrite(t, s) ==
    \/ /\ pc[t] \in {"add_push", "snd_lock", "td_clear", "p_lock"}
       /\ frame[t].this = s
    \/ /\ t = "task" /\ pc[t] = "wr_next" /\ sockList # <<>>
       /\ Head(sockList) = s /\ kind[s] = "client" /\ conn_state[s] \notin {2, 3}

HoldsWrite(t) == \E s \in Socks : write_mutex[s] = t

\* Thread t waits for a mutex that thread u holds.
WaitsFor(t, u) ==
    \/ RequestsRegistry(t) /\ asyncsock_mutex.owner = u /\ u # t
    \/ \E s \in Socks : RequestsWrite(t, s) /\ write_mutex[s] = u

\* Threads that wait for one another in a circle.
Deadlocked ==
    LET waits == {w \in Threads \X Threads : WaitsFor(w[1], w[2])} IN
    /\ waits # {}
    /\ \E t, u, v \in Threads :
        \/ <<t, t>> \in waits
        \/ <<t, u>> \in waits /\ <<u, t>> \in waits
        \/ <<t, u>> \in waits /\ <<u, v>> \in waits /\ <<v, t>> \in waits

\* C22: a thread that asks for the registry mutex holds no write mutex (the
\* only nesting is registry mutex first, write mutex second), and the service
\* task, the resolver's callback and the application's add, send, write,
\* close and abort never wait for one another in a circle.
C22_LockOrder ==
    /\ \A t \in Threads : RequestsRegistry(t) => ~HoldsWrite(t)
    /\ ~Deadlocked

\* The application's close() waits for the registry mutex while the service
\* task holds it together with the client's write mutex, and the resolver's
\* callback waits for the registry mutex too.
C22_Witness ==
    /\ pc["user"] = "td_lock" /\ pc["lwip"] = "dns_flag"
    /\ asyncsock_mutex.owner = "task"
    /\ HoldsWrite("task")

\* ------------------------------------------------------------ _conn_state
ConnStates == {0, 2, 4}

\* This step takes _conn_state of client s from a to b.
Moves(s, a, b) == conn_state[s] = a /\ conn_state'[s] = b

\* Thread t leaves label from for label to in this step, working on client s.
Steps(t, s, from, to) == pc[t] = from /\ pc'[t] = to /\ frame[t].this = s

\* What on_connect adds to the log of a client's callbacks.
ConnectLogged(s) ==
    cblog'[s] = cblog[s] \o (IF "connect" \in cbs[s] THEN <<<<"connect", 0>>>> ELSE <<>>)

\* C23: _conn_state is CLOSED (0), CONNECTING (2) or ESTABLISHED (4).  It
\* goes from 0 to 2 where connect(ip, port) has issued its connect, from 2 to
\* 4 in a writable hook (which fires on_connect once), from 2 or 4 to 0 where
\* a teardown begins, and nowhere else; a client constructed around an
\* accepted descriptor starts with 4; connect(ip, port) on a client that has
\* a descriptor returns false and changes nothing.
C23_ConnStateMachine ==
    [][\A s \in Socks :
         /\ conn_state'[s] \in ConnStates
         /\ kind[s] = "client" /\ conn_state'[s] # conn_state[s] =>
              \/ Moves(s, 0, 2) /\ \E t \in Threads : Steps(t, s, "cn_lock", "cn_set")
              \/ /\ Moves(s, 2, 4)
                 /\ pc["task"] = "wr_next" /\ Head(sockList) = s
                 /\ ConnectLogged(s)
              \/ /\ Moves(s, 2, 0) \/ Moves(s, 4, 0)
                 /\ \E t \in Threads : Steps(t, s, "td_lock", "td_close")
         /\ kind[s] # "client" /\ kind'[s] = "client" =>
              conn_state'[s] = IF socket'[s] # -1 THEN 4 ELSE 0
         /\ \A t \in Threads :
              pc[t] = "cn_check" /\ pc'[t] # pc[t] /\ frame[t].this = s /\ socket[s] # -1 =>
                 /\ pc'[t] = frame[t].ret
                 /\ t = "user" => frame'[t].result = 0
                 /\ UNCHANGED <<baseVars, clientVars, openFds>>]_vars

\* ------------------------------------------------------ shape of the write queue
\* The bytes of client s that were written to a descriptor in this step.
WrittenNow(s) == Len(wire'[s]) > Len(wire[s])

\* The writable hook of an ESTABLISHED client s runs in this step.
FlushHook(s) ==
    /\ pc["task"] = "wr_next"
    /\ sockList # <<>> /\ Head(sockList) = s /\ sockList' # sockList
    /\ kind[s] = "client" /\ conn_state[s] \notin {2, 3}

\* The hook ends in _error(sent_errno).
ErrorTeardownBegins ==
    /\ pc'["task"] = "td_lock"
    /\ frame'["task"].isErr /\ frame'["task"].cause = "write failed"

QueueInShape(q) ==
    /\ \A i \in 1 .. Len(q) : 0 <= q[i].written /\ q[i].written <= q[i].length
    /\ \A i \in 2 .. Len(q) : q[i].written = 0 /\ q[i].write_errno = 0

\* C24: in a client's write queue every buffer has 0 <= written <= length,
\* and every buffer but the head has written = 0 and write_errno = 0; no byte
\* of a queue is written while its head has a write_errno, and the writable
\* hook that meets such a head goes to the error teardown; a writable hook
\* retires at most one buffer.
C24_QueueShape ==
    [][\A s \in Socks :
         /\ QueueInShape(writeQueue'[s])
         /\ writeQueue[s] # <<>> /\ Head(writeQueue[s]).write_errno # 0 =>
              /\ ~WrittenNow(s)
              /\ FlushHook(s) => ErrorTeardownBegins
         /\ FlushHook(s) => Len(writeQueue'[s]) >= Len(writeQueue[s]) - 1]_vars

\* send() left an errno on a head buffer that was written in part, with
\* another buffer behind it.
C24_Witness ==
    \E s \in Socks :
        /\ Len(writeQueue[s]) = 2
        /\ writeQueue[s][1].write_errno # 0
        /\ writeQueue[s][1].written > 0

\* ------------------------------------------------------ progress of the queue
\* select() reported client s writable and its writable hook is about to run.
ReportedWritable(s) == pc["task"] = "wr_next" /\ sockList # <<>> /\ Head(sockList) = s

\* Buffer b is in the write queue of client s.
QueuedIn(s, b) == \E i \in 1 .. Len(writeQueue[s]) : writeQueue[s][i].data = b

\* The bytes of buffer b on wire w, in the order they were written.
WireOf(w, b) == SelectSeq(w, LAMBDA x : x[1] = b)

\* A buffer leaves the queue retired by the writable hook, fully written and
\* with on_ack if registered, or discarded by a teardown; what is written is
\* the next bytes of the head buffer, whose place in the queue stays.
RetiredOrDiscarded(s) ==
    /\ writeQueue[s] # <<>> /\ writeQueue'[s] # writeQueue[s] =>
          \/ /\ writeQueue'[s] = Tail(writeQueue[s])
             /\ ReportedWritable(s)
             /\ Len(WireOf(wire'[s], Head(writeQueue[s]).data)) = Head(writeQueue[s]).length
             /\ cblog'[s] = Fired(cblog[s], cbs[s], "sent", Head(writeQueue[s]).data)
          \/ /\ writeQueue'[s] = <<>>
             /\ \E t \in Threads : pc[t] = "td_clear" /\ frame[t].this = s
          \/ /\ Len(writeQueue'[s]) = Len(writeQueue[s])
             /\ Tail(writeQueue'[s]) = Tail(writeQueue[s])
             /\ Head(writeQueue'[s]).data = Head(writeQueue[s]).data
             /\ Head(writeQueue'[s]).written >= Head(writeQueue[s]).written
          \/ /\ Len(writeQueue'[s]) = Len(writeQueue[s]) + 1
             /\ SubSeq(writeQueue'[s], 1, Len(writeQueue[s])) = writeQueue[s]
    /\ \A b \in BufIds : \A i \in 1 .. Len(WireOf(wire'[s], b)) : WireOf(wire'[s], b)[i][2] = i

\* C25: when the service task keeps running, the client's descriptor is
\* reported writable again and again, and a write on it does not answer
\* EAGAIN for ever, every buffer in the queue of the client leaves it in the
\* end, retired (fully written, with on_ack if registered) or discarded by a
\* teardown; EAGAIN leaves the queue and the bytes written as they are, in
\* their order.
C25_QueueProgress ==
    /\ \A s \in Socks : \A b \in BufIds :
          []<>ReportedWritable(s) => (QueuedIn(s, b) ~> ~QueuedIn(s, b))
    /\ [][\A s \in Socks : RetiredOrDiscarded(s)]_vars

\* Both buffers are written, the first retired after a write that took it
\* in two parts.
C25_Witness ==
    \E s \in Socks :
        /\ writeQueue[s] = <<>>
        /\ Len(wire[s]) = 2 * MaxLen
        /\ cblog[s] = <<<<"sent", 1>>, <<"sent", 2>>>>

\* ------------------------------------------------------ destroyed objects
\* This step reads or writes a field of object s or calls a hook on it:
\* the last step of a teardown (_removeAllCallbacks), or a hook the service
\* task calls on the head of its list.
Touches(s) ==
    \/ \E t \in Threads :
          pc[t] \in {"td_lock", "td_close", "td_clear", "td_remove"}
          /\ pc'[t] # pc[t] /\ frame[t].this = s /\ kind' = kind
    \/ /\ pc["task"] \in {"wr_next", "rd_next", "dns_next", "poll_next"}
       /\ sockList # <<>> /\ Head(sockList) = s
       /\ sockList' # sockList

\* C26: the engine does not touch a managed socket that has been destroyed:
\* after a callback has destroyed a client for which free() was true, no step
\* of a teardown and no hook dispatch reads or writes a field of the object
\* or calls a hook on it.
C26_NoUseAfterDestroy ==
    [][\A s \in Socks : kind[s] = "dead" => ~Touches(s)]_vars

\* --------------------------------------------------- the RX timeout's start
\* An RX-timeout teardown of client s begins in this step: the poll hook
\* leaves its test for _close().
RxTimeoutBegins(s) ==
    /\ pc["task"] = "p_lock" /\ frame["task"].this = s
    /\ pc'["task"] = "td_lock"

\* C27: with an RX timeout set, the RX-timeout teardown comes no earlier than
\* rx_timeout_s * 1000 ms after the connection became usable, be the client
\* connected by connect() or made around an accepted descriptor, and never
\* on a client that is still CONNECTING. Every connection of a run that
\* starts at Uptime became usable at Uptime or later.
C27_RxTimeoutNotEarly ==
    [][\A s \in Socks :
         RxTimeoutBegins(s) =>
             /\ conn_state[s] = 4
             /\ now - Uptime >= rx_since_timeout[s] * 1000]_vars

\* ------------------------------------------------- hostname connects end
\* connect(host, port) on client s, its callbacks registered, has returned
\* true with the resolution deferred, n callbacks logged so far.
Deferred(s, n) == dnsReq[s] /\ cbs[s] = CallbackNames /\ Len(cblog[s]) = n

\* A connect of client s, its callbacks registered, is in progress.
InProgress(s) == conn_state[s] = 2 /\ socket[s] # -1 /\ cbs[s] = CallbackNames

\* The callbacks logged from position n on report a connect that succeeded,
\* or one that failed: on_error and then on_disconnect.
ReportedFrom(s, n) ==
    \E i \in n + 1 .. Len(cblog[s]) :
        \/ cblog[s][i][1] = "connect"
        \/ /\ cblog[s][i][1] = "error"
           /\ \E j \in i + 1 .. Len(cblog[s]) : cblog[s][j][1] = "discard"

\* The peer has closed the connection of client s before the result of its
\* connect was read: on_disconnect alone.
ClosedByPeer(s) == conn_state[s] = 0 /\ cblog[s] = <<<<"discard", 0>>>>

\* C28: every connect(host, port) that returned true is followed in the end
\* by on_connect, or by on_error and then on_disconnect: a deferred
\* resolution leads to such a report or to a connect in progress, and a
\* connect in progress leads to such a report, unless the peer closes the
\* connection first.
C28_HostConnectReported ==
    \A s \in Socks :
        /\ \A n \in 0 .. 4 : Deferred(s, n) ~> (InProgress(s) \/ ReportedFrom(s, n))
        /\ InProgress(s) ~> (ReportedFrom(s, 0) \/ ClosedByPeer(s))

\* ------------------------------------------------ the queue of a closed client
\* No thread is inside a teardown of client s.
NoTeardown(s) ==
    \A t \in Threads :
        /\ pc[t] \in {"td_lock", "td_close", "td_clear", "c_give", "c_fire", "td_remove"}
              => frame[t].this # s
        /\ \A i \in 1 .. Len(stack[t]) :
              stack[t][i].pc \in {"td_remove", "dtor_members"} => stack[t][i].frame.this # s

\* C29: whenever a client is CLOSED and no teardown of it is in progress its
\* write queue is empty, however add() and send() on the application's thread
\* interleave with a teardown on the service task: nothing queued during one
\* connection is left for a later one, no copy is left unfreed in the queue.
C29_ClosedQueueEmpty ==
    \A s \in Socks :
        kind[s] = "client" /\ conn_state[s] = 0 /\ socket[s] = -1 /\ NoTeardown(s)
            => writeQueue[s] = <<>>

\* ------------------------------------------------- the window after a teardown
\* C30: a client torn down with buffers still queued and connected again
\* offers the full window: ESTABLISHED with an empty queue, space() is the
\* initial window, in a later connection of the object as in its first.
C30_FullWindowAfterReconnect ==
    \A s \in Socks :
        kind[s] = "client" /\ Connected(s) /\ writeQueue[s] = <<>> => Space(s) = SndBuf

====
